---- MODULE Spec2Model ----
(***************************************************************************)
(* Model of the SEC ingestion pipeline (sec-edgar: SecEdgarClient,         *)
(* SecFilingParser, SecDataPipeline) and of the BullMQ job queues          *)
(* (lib/queues.ts) of the insider-trading tracker.                         *)
(*                                                                         *)
(* Strings that the code concatenates are sequences of tokens, so that a   *)
(* template literal is a concatenation. Every await of the code is one     *)
(* action: the database executes one call at a time, and the runs of       *)
(* ingestRecentFilings interleave at their awaits.                         *)
(***************************************************************************)
EXTENDS Integers, Sequences, FiniteSets, Bags, TLC

VARIABLES
    filings,        \* table Filing
    transactions,   \* table Transaction
    persons,        \* table Person
    companies,      \* table Company
    pc,             \* per run of ingestRecentFilings: the await it is at
    run,            \* per run: the locals of ingestRecentFilings / processFiling / saveTransactions
    downloads,      \* document requests issued by getFilingDocument, per run
    base,           \* per run: the Filing and Transaction tables as they were when it started
    jobs,           \* the jobs of the four BullMQ queues (a bag of job records)
    now,            \* Date.now(), in ms since the midnight (UTC) that starts today
    lastRequestTime,\* SecEdgarClient.lastRequestTime
    caller,         \* per caller of the client: where it is in makeRequest
    starts,         \* the times at which fetch() was called, in order
    ends,           \* the requests that have settled, in order: when, after how many
                    \* calls of fetch(), and whether X-RateLimit-Remaining was below 5
    repeat,         \* the repeatable job definitions of the queues
    lifecycle,      \* the process: running, closing (closeQueues was called), closed;
                    \* and the jobs that were active when closeQueues was called
    parser,         \* the last call of parseForm4: its document and its outcome
    agent,          \* a BaseAgent: its fields, the interval timers that are active,
                    \* and the calls of start() that await the initial execution
    health          \* the calls of getQueueHealth: the await each is at, and the counts
                    \* it has been given so far

pipeVars == <<transactions, persons, companies, pc, run, downloads, base>>
rateVars == <<now, lastRequestTime, caller, starts, ends>>
procVars == <<repeat, lifecycle, parser, agent, health>>
vars == <<filings, transactions, persons, companies, pc, run, downloads, base, jobs,
          now, lastRequestTime, caller, starts, ends, repeat, lifecycle, parser, agent,
          health>>

----------------------------------------------------------------------------
(* Bounds *)

\* the runs of ingestRecentFilings, which may overlap
Runs == {1, 2}

\* jobs ever added to the queues
MaxJobs == 4

\* fetch jobs added beside the ingest runs
MaxFetchJobs == 2

\* jobs that the recurring definitions and their follow-ups ever queue
MaxChainJobs == 6

\* calls of addRecurringJobs (process starts)
MaxRestarts == 2

\* jobs that the enrichment queue holds at a time
MaxFailingJobs == 26

\* jobs of them that are unfinished at a time
MaxUnfinished == 1

\* requests of the admin route in progress at a time
MaxHealthCalls == 2

\* line items of a document given to parseForm4
MaxItems == 4

\* jobs that the four queues hold together under load
MaxLoadJobs == 12

\* jobs that each queue beside the loaded or the failing one holds
MaxBackground == 1

\* fetch jobs beside the ingest run of SpecLive
MaxLiveJobs == 1

----------------------------------------------------------------------------
(* The archive (EDGAR): what the listing and the document requests return *)

NONE == 0

\* submissions.filings.recent of each entity, in the archive's order; age is
\* the number of days from the day filingDate names to today (1 is
\* yesterday). A cik is a sequence of
\* digits; an accession number is a sequence of dash-free parts and dashes.
Archive == <<
    [cik |-> <<"1">>, acc |-> <<"25", "-", "1">>, form |-> "4", age |-> 1, doc |-> "d1"],
    [cik |-> <<"1">>, acc |-> <<"25", "-", "2">>, form |-> "4", age |-> 2, doc |-> "d2"],
    [cik |-> <<"1">>, acc |-> <<"25", "-", "9">>, form |-> "3", age |-> 1, doc |-> "d9"],
    [cik |-> <<"2">>, acc |-> <<"25", "-", "3">>, form |-> "4", age |-> 3, doc |-> "d3"],
    [cik |-> <<"2">>, acc |-> <<"25", "-", "8">>, form |-> "4", age |-> 39, doc |-> "d8"],
    [cik |-> <<"3">>, acc |-> <<"25", "-", "7">>, form |-> "4", age |-> 39, doc |-> "d7"] >>

Ciks == {Archive[n].cik : n \in DOMAIN Archive}

\* A tag value of the parsed XML (parseTagValue: true): a number, a text
\* that does not start with a number, a text t that starts with the number
\* n and goes on with something else, or nothing (the tag is missing).
Num(n) == [kind |-> "number", n |-> n, text |-> ""]
Text(t) == [kind |-> "text", n |-> 0, text |-> t]
Prefixed(n, t) == [kind |-> "prefixed", n |-> n, text |-> t]
Absent == [kind |-> "absent", n |-> 0, text |-> ""]

\* A price or a value in money, counted in hundredths: 190.50 is Hundredths(190, 50)
Hundredths(units, h) == units * 100 + h

\* One nonDerivativeTransaction element: the values of transactionDate,
\* transactionCode, transactionShares and transactionPricePerShare (the
\* price in hundredths, and with it Transaction.price and estimatedValue)
Item(date, code, shares, price) ==
    [date |-> date, code |-> code, shares |-> shares, price |-> price]

\* nonDerivativeTable.nonDerivativeTransaction: missing, one bare object
\* (value is the element), or an array (value is the sequence of elements)
NoTable == [kind |-> "absent", value |-> << >>]
BareObject(it) == [kind |-> "object", value |-> it]
ArrayOf(its) == [kind |-> "array", value |-> its]

\* The content of a document, given as what xmlParser.parse makes of it;
\* wellFormed is whether xmlParser.parse accepts the text, and container is
\* whether the parsed document has the element ownershipDocument. The other
\* fields are the elements inside ownershipDocument, or, for a document
\* without it, the elements of those names at the top level.
Doc(person, title, company, ticker, table) ==
    [wellFormed |-> TRUE, container |-> TRUE, person |-> person, title |-> title,
     company |-> company, ticker |-> ticker, table |-> table]

\* the document with its elements at the top level, outside any ownershipDocument
Rootless(doc) == [doc EXCEPT !.container = FALSE]

Malformed ==
    [wellFormed |-> FALSE, container |-> FALSE, person |-> "", title |-> "",
     company |-> "", ticker |-> "", table |-> NoTable]

\* a date written without dashes, which the parser reads as a number
CompactDate == 20250110

\* The documents of the archive, by the name of the primary document
Document(d) ==
    CASE d = "d1" -> Doc("P", "CEO", "N1", "T1",
                         ArrayOf(<< Item(Text("2025-01-10"), Text("A"), Num(25000),
                                         Num(Hundredths(190, 50))),
                                    Item(Text("2025-01-11"), Text("D"), Num(10), Absent) >>))
      [] d = "d2" -> Doc("P", "CEO", "N1", "T1",
                         ArrayOf(<< Item(Text("N/A"), Text("A"), Num(5), Num(1)),
                                    Item(Text("2025-01-12"), Text("A"), Num(0), Num(1)),
                                    Item(Text("2025-01-12"), Text("D"), Num(4), Num(0)) >>))
      [] d = "d3" -> Malformed
      [] d = "d7" -> Doc("R", "", "N3", "",
                         ArrayOf(<< Item(Text("2025-01-13"), Text("A"), Num(3),
                                         Num(Hundredths(1, 0))),
                                    Item(Num(CompactDate), Num(4), Num(2), Absent) >>))
      [] OTHER    -> Doc("Q", "", "N2", "",
                         BareObject(Item(Text("2025-01-13"), Text("D"), Num(7), Num(3))))

\* typeof x === "string", for a value x that is a string or a number: the
\* printed form of a string starts with a quotation mark
IsString(x) == SubSeq(ToString(x), 1, 1) = "\""

\* the truthiness of a string or a number: "" and 0 are falsy
Truthy(x) == IF IsString(x) THEN x # "" ELSE x # 0

\* x === s, for a string s
StrictEquals(x, s) == IsString(x) /\ x = s

\* new Date(x) is a valid date: a text in the form of a date, or a number
\* of milliseconds (every number of the model is below the 8.64e15 that a
\* Date holds)
ValidDate(x) ==
    IF IsString(x) THEN x \in {"2025-01-10", "2025-01-11", "2025-01-12", "2025-01-13"}
    ELSE TRUE

\* new Date(x), for a valid date: the date a text names stands for it, and
\* for a number of milliseconds since the epoch its digits do
NewDate(x) == IF IsString(x) THEN x ELSE ToString(x)

----------------------------------------------------------------------------
(* Pure functions of the pipeline *)

\* A checksum that also hashes something that differs from call to call
Checksum_Salted(cik, acc) == cik \o <<"-">> \o acc \o <<ToString(Cardinality(filings))>>

\* processFiling: sha256 of `${cik}-${accessionNumber}`; the digest is taken
\* to be injective on the hashed text, so the text stands for it.
Checksum(cik, acc) == cik \o <<"-">> \o acc

\* fetchSecFiling: checksum `mock-${accessionNo}`
MockChecksum(acc) == <<"mock", "-">> \o acc

\* cik.padStart(PadWidth, "0")
PadWidth == 10

RECURSIVE PadStart(_, _, _)
PadStart(str, n, ch) == IF Len(str) >= n THEN str ELSE PadStart(<<ch>> \o str, n, ch)

\* accessionNumber.replace(/-/g, "")
RemoveDashes(str) == SelectSeq(str, LAMBDA part : part # "-")

\* processFiling: the url
\* `${SEC_EDGAR_URL}/${cik.padStart(10, "0")}/${accessionNumber.replace(/-/g, "")}/${primaryDocument}`
FilingUrl(d) ==
    <<"SEC_EDGAR_URL", "/">> \o PadStart(d.cik, PadWidth, "0") \o <<"/">>
        \o RemoveDashes(d.acc) \o <<"/", d.doc>>

\* A JavaScript number: NaN, or the number n
NaN == [nan |-> TRUE, n |-> 0]
Number(n) == [nan |-> FALSE, n |-> n]

\* parseFloat(value?.["#text"] || value || "0"): a number is itself (0 is
\* falsy and is replaced by "0", which parses to 0), a missing value is
\* "0", a text that starts with a number parses to that number, and any
\* other text parses to NaN
ParseFloat(v) ==
    IF v.kind \in {"number", "prefixed"} THEN Number(v.n)
    ELSE IF v.kind = "absent" \/ v.text = "" THEN Number(0)
    ELSE NaN

\* value?.["#text"] || value || "": the value of a tag, a text or a number
\* as the parser made it, and "" when it is missing or falsy (the empty
\* text, the number 0)
TextOf(v) ==
    IF v.kind \in {"text", "prefixed"} THEN v.text
    ELSE IF v.kind = "number" /\ v.n # 0 THEN v.n
    ELSE ""

\* x || undefined for a number x: NaN and 0 are falsy (NONE stands for undefined)
OrUndefined(x) == IF x.nan \/ x.n = 0 THEN NONE ELSE x.n

\* A normalisation that drops a table that is no array
TransactionArray_ArraysOnly(table) ==
    IF table.kind = "array" THEN table.value ELSE << >>

\* parseForm4: Array.isArray(t) ? t : [t], for a table that is present
TransactionArray(table) ==
    IF table.kind = "absent" THEN << >>
    ELSE IF table.kind = "array" THEN table.value
    ELSE << table.value >>

\* parseForm4, the loop over the line items: an item is pushed when
\* shares > 0 (false for NaN) and transactionDate and transactionCode are
\* truthy; pricePerShare is parseFloat(...) || undefined.
RECURSIVE ParseItems(_, _)
ParseItems(doc, items) ==
    IF items = << >> THEN << >>
    ELSE LET it == Head(items)
             shares == ParseFloat(it.shares)
             rest == ParseItems(doc, Tail(items))
         IN IF ~shares.nan /\ shares.n > 0 /\ Truthy(TextOf(it.date)) /\ Truthy(TextOf(it.code))
            THEN << [personName |-> doc.person, personTitle |-> doc.title,
                     companyName |-> doc.company, companyTicker |-> doc.ticker,
                     transactionDate |-> TextOf(it.date), transactionCode |-> TextOf(it.code),
                     shares |-> shares.n,
                     pricePerShare |-> OrUndefined(ParseFloat(it.price))] >> \o rest
            ELSE rest

\* parseForm4: parsedXml.ownershipDocument || parsedXml, the container or,
\* without one, the parsed document itself, which the code goes on to read
\* as if it were the container
OwnershipDocument(parsedXml) == [parsedXml EXCEPT !.container = TRUE]

\* parseForm4: throws when xmlParser.parse throws; `if (!ownershipDocument)`
\* never does, because the parsed document is an object, which is truthy;
\* else the drafts
ParseForm4(doc) ==
    IF doc.wellFormed
    THEN LET ownershipDocument == OwnershipDocument(doc)
         IN [ok |-> TRUE,
             drafts |-> ParseItems(ownershipDocument,
                                   TransactionArray(ownershipDocument.table))]
    ELSE [ok |-> FALSE, drafts |-> << >>]

\* An instant: the day it falls in, counted from today (0 is today, -1 is
\* yesterday), and the milliseconds since the midnight that starts that day
Instant(day, ms) == [day |-> day, ms |-> ms]

\* a >= b, for two instants
NotBefore(a, b) == a.day > b.day \/ (a.day = b.day /\ a.ms >= b.ms)

\* discoverRecentFilings, the filter of one entity's listing, called when
\* the clock reads at: cutoffDate is new Date() set back by daysBack days,
\* which keeps the time of day (no change of the clock's offset falls in
\* between), and new Date(filingDate) is the midnight that starts the day
\* the listing names; the filter is filingDate >= cutoffDate
RECURSIVE ListingOf(_, _, _, _, _)
ListingOf(cik, formTypes, daysBack, at, n) ==
    IF n > Len(Archive) THEN << >>
    ELSE LET a == Archive[n]
             cutoffDate == Instant(-daysBack, at)
             filingDate == Instant(-a.age, 0)
             rest == ListingOf(cik, formTypes, daysBack, at, n + 1)
         IN IF a.cik = cik /\ NotBefore(filingDate, cutoffDate) /\ a.form \in formTypes
            THEN <<a>> \o rest ELSE rest

\* discoverRecentFilings, the loop over the entities; failed is the set of
\* entities whose getCompanySubmissions returned null, and at is the
\* reading of the clock when the cutoff is taken
RECURSIVE Collect(_, _, _, _, _)
Collect(ciks, formTypes, daysBack, failed, at) ==
    IF ciks = << >> THEN << >>
    ELSE (IF Head(ciks) \in failed THEN << >>
          ELSE ListingOf(Head(ciks), formTypes, daysBack, at, 1))
         \o Collect(Tail(ciks), formTypes, daysBack, failed, at)

\* Array.prototype.sort (stable) by filingDate, newest first
RECURSIVE InsertByDate(_, _)
InsertByDate(a, sorted) ==
    IF sorted = << >> THEN <<a>>
    ELSE IF a.age < Head(sorted).age THEN <<a>> \o sorted
    ELSE <<Head(sorted)>> \o InsertByDate(a, Tail(sorted))

RECURSIVE SortNewestFirst(_)
SortNewestFirst(s) ==
    IF s = << >> THEN << >>
    ELSE InsertByDate(s[Len(s)], SortNewestFirst(SubSeq(s, 1, Len(s) - 1)))

discoverRecentFilings(ciks, formTypes, daysBack, failed, at) ==
    SortNewestFirst(Collect(ciks, formTypes, daysBack, failed, at))

\* null in the column estimatedValue, which can hold the value 0 as well
NULL == 0 - 1

\* saveTransactions: estimatedValue = pricePerShare ? shares * pricePerShare : null
\* (pricePerShare is a number other than 0, or undefined)
EstimatedValue(t) ==
    IF t.pricePerShare # NONE THEN t.shares * t.pricePerShare ELSE NULL

----------------------------------------------------------------------------
(* SecEdgarClient: the rate limiter *)

RATE_LIMIT_DELAY == 100

\* makeRequest: the sleep after a response with X-RateLimit-Remaining below
\* LOW_REMAINING
THROTTLE_SLEEP == 1000
LOW_REMAINING == 5

\* the clock advances in steps of TickMs, MaxTicks times, and by
\* THROTTLE_SLEEP at a time, MaxSleeps times
TickMs == RATE_LIMIT_DELAY \div 2
MaxTicks == 4
MaxSleeps == 1

\* calls of the client's operations
MaxCalls == 3

\* responses to a run that set off the throttle
MaxThrottles == 1
StartTime == 10 * RATE_LIMIT_DELAY
Times == {StartTime + a * TickMs + b * THROTTLE_SLEEP : a \in 0..MaxTicks, b \in 0..MaxSleeps}

\* the values of the header X-RateLimit-Remaining of a response (NONE: no header)
RemainingChoices == {NONE, LOW_REMAINING - 1, LOW_REMAINING}

\* concurrent callers of getCompanySubmissions / getFilingDocument on the
\* one client of the one pipeline (secPipeline): the ingest runs, and calls
\* of the two operations from elsewhere
Callers == Runs
ClientOps == {"getCompanySubmissions", "getFilingDocument"}

\* a caller that is in no operation of the client
Idle == [at |-> "idle", op |-> "", wake |-> 0]

\* A client constructed (lastRequestTime = 0) at a time of day that is at
\* least RATE_LIMIT_DELAY after the epoch.
InitRate ==
    /\ now = StartTime
    /\ lastRequestTime = 0
    /\ caller = [c \in Callers |-> Idle]
    /\ starts = << >>
    /\ ends = << >>

\* delay(): the time left to sleep, read from lastRequestTime at the call
SleepFor(t, last) ==
    IF t - last < RATE_LIMIT_DELAY THEN RATE_LIMIT_DELAY - (t - last) ELSE 0

----------------------------------------------------------------------------
(* The store (Prisma) *)

\* cuid(): a fresh identifier of a table that never deletes
NewId(table) == Cardinality(table) + 1

\* A lookup that never finds the row
FindFilingByChecksum_Miss(fs, cs) == {}

\* prisma.filing.findUnique({ where: { checksum } })
FindFilingByChecksum(fs, cs) == {f \in fs : f.checksum = cs}

\* A Filing table without the unique index
ChecksumTaken_NoIndex(fs, cs) == FALSE

\* The unique index on Filing.checksum that findUnique relies on:
\* prisma.filing.create rejects a checksum a row already has.
ChecksumTaken(fs, cs) == \E f \in fs : f.checksum = cs

\* The unique index on Company.ticker (company.findUnique({ where: { ticker } })):
\* prisma.company.create rejects a ticker a row already has.
TickerTaken(cs, ticker) == \E c \in cs : c.ticker = ticker

\* prisma.person.findFirst({ where: { name, type: "CORPORATE_INSIDER" } })
FindPersons(ps, name) == {p \in ps : p.name = name /\ p.type = "CORPORATE_INSIDER"}

\* prisma.company.findFirst({ where: { OR: [{ cik }, { ticker }, { name }] } })
FindCompanies(cs, cik, ticker, name) ==
    {c \in cs : c.cik = cik \/ c.ticker = ticker \/ c.name = name}

\* An update whose where clause matches every row
UpdateStatus_AllRows(fs, id, status) == {[f EXCEPT !.status = status] : f \in fs}

\* prisma.filing.update({ where: { id }, data: { status } })
UpdateStatus(fs, id, status) ==
    {IF f.id = id THEN [f EXCEPT !.status = status] ELSE f : f \in fs}

----------------------------------------------------------------------------
(* The runs of the pipeline *)

TargetChoices == { << >>, << <<"1">> >>, << <<"2">> >>, << <<"1">>, <<"2">> >> }
DaysBackChoices == {2, 7}

NoLocals ==
    [fid |-> NONE, content |-> Malformed, drafts |-> << >>, k |-> 0,
     person |-> NONE, company |-> NONE]

\* ciks, daysBack: the arguments of discoverRecentFilings; cutoff: the
\* reading of the clock from which it takes cutoffDate; e: the entity its
\* loop is at; failed: the entities whose listing request failed; lost: the filings whose document
\* request failed
RunInit ==
    [ciks |-> << >>, daysBack |-> 0, cutoff |-> 0, e |-> 0, failed |-> {}, lost |-> << >>,
     disc |-> << >>, i |-> 0, processed |-> 0, errors |-> 0,
     attempted |-> << >>, loc |-> NoLocals]

\* the counts of a queue in the result of getQueueHealth
NoCounts == [waiting |-> 0, active |-> 0, completed |-> 0, failed |-> 0]

\* No request of the admin route is in progress: calls holds the calls of
\* getQueueHealth of the requests that have not been answered.
HealthInit == [calls |-> EmptyBag]

\* new BaseAgent(config): isRunning = false, intervalId undefined,
\* executionCount = 0. interval is whether config.interval is set; timers
\* are the interval timers that are active and made the number of timers
\* ever set; awaiting is the number of calls of start() that await their
\* initial safeExecute(); stopped says that stop() has returned and start()
\* was not called since.
AgentInit ==
    [isRunning |-> FALSE, intervalId |-> NONE, executionCount |-> 0, interval |-> FALSE,
     timers |-> {}, made |-> 0, awaiting |-> 0, stopped |-> FALSE]

Init ==
    /\ filings = {}
    /\ transactions = {}
    /\ persons = {}
    /\ companies = {}
    /\ pc = [r \in Runs |-> "idle"]
    /\ run = [r \in Runs |-> RunInit]
    /\ downloads = [r \in Runs |-> << >>]
    /\ base = [r \in Runs |-> [quiet |-> FALSE, filings |-> {}, transactions |-> {}]]
    /\ jobs = EmptyBag
    /\ InitRate
    /\ repeat = [defs |-> {}, at |-> 0, calls |-> 0]
    /\ lifecycle = [phase |-> "running", atSignal |-> EmptyBag]
    /\ parser = [called |-> FALSE, doc |-> Malformed, out |-> ParseForm4(Malformed)]
    /\ agent = AgentInit
    /\ health = HealthInit

Discovery(r) == run[r].disc[run[r].i]

\* prisma.company.findMany({ where: { cik: { not: null } }, take: 100 }),
\* mapped to the ciks and filtered to the non-empty ones, in id order
RECURSIVE CompanyCiks(_, _)
CompanyCiks(cs, n) ==
    IF n > Cardinality(cs) THEN << >>
    ELSE LET c == CHOOSE x \in cs : x.id = n
         IN (IF c.cik # << >> THEN <<c.cik>> ELSE << >>) \o CompanyCiks(cs, n + 1)

\* A loop that a throw of processFiling leaves
AfterFiling_Abort(rr, ok) ==
    [rr EXCEPT !.processed = IF ok THEN @ + 1 ELSE @,
               !.errors = IF ok THEN @ ELSE @ + 1,
               !.i = IF ok THEN @ + 1 ELSE Len(rr.disc) + 1,
               !.loc = NoLocals]

\* the for loop over the discoveries: processFiling returned (ok) or threw
AfterFiling(rr, ok) ==
    [rr EXCEPT !.processed = IF ok THEN @ + 1 ELSE @,
               !.errors = IF ok THEN @ ELSE @ + 1,
               !.i = @ + 1,
               !.loc = NoLocals]

LoopPc(rr) == IF rr.i <= Len(rr.disc) THEN "findUnique" ELSE "done"

\* the entity the loop of discoverRecentFilings goes to after a failed
\* listing, in a loop that the first failed listing ends
NextEntity_StopAtFailed(rr, ok) == IF ok THEN rr.e + 1 ELSE Len(rr.ciks) + 1

\* discoverRecentFilings, the for loop over the entities: the entity that
\* follows entity e, whose listing was answered (ok) or was null (continue)
NextEntity(rr, ok) == rr.e + 1

----------------------------------------------------------------------------
(* SecEdgarClient: the requests *)

\* the client, the requests it has made and the documents requested
Client ==
    [caller |-> caller, lastRequestTime |-> lastRequestTime, starts |-> starts,
     downloads |-> downloads]

\* makeRequest: delay() has set lastRequestTime and returned, and fetch()
\* is called; a run that is in processFiling requests the document of its
\* discovery
Fetch(cl, c, op) ==
    [cl EXCEPT !.caller[c] = [at |-> "fetching", op |-> op, wake |-> 0],
               !.lastRequestTime = now,
               !.starts = Append(@, now),
               !.downloads[c] = IF op = "getFilingDocument" /\ pc[c] # "idle"
                                THEN Append(@, Discovery(c).acc) ELSE @]

\* makeRequest up to the first await that takes time: delay() either sleeps,
\* or sets lastRequestTime and returns, and then fetch() is called
makeRequest(cl, c, op) ==
    LET ms == SleepFor(now, cl.lastRequestTime)
    IN IF ms > 0
       THEN [cl EXCEPT !.caller[c] = [at |-> "sleeping", op |-> op, wake |-> now + ms]]
       ELSE Fetch(cl, c, op)

\* the operation of caller c has returned
Leave(cl, c) == [cl EXCEPT !.caller[c] = Idle]

\* A client that requests once more when the request failed
Rethrow_RequestAgain(cl, c) == Leave(Fetch(cl, c, cl.caller[c].op), c)

\* makeRequest, the catch: the error is logged and thrown on, and the catch
\* of the operation returns null; no other request is made
Rethrow(cl, c) == Leave(cl, c)

\* discoverRecentFilings, the sleep at the end of the loop body
LISTING_PAUSE == 200

\* discoverRecentFilings at the head of its loop: the listing of entity
\* rr.e is asked for; past the last entity the filings are sorted and
\* returned, and ingestRecentFilings enters its loop over them
Discover(cl, r, rr) ==
    IF rr.e <= Len(rr.ciks)
    THEN [run |-> rr, pc |-> "discover", cl |-> makeRequest(cl, r, "getCompanySubmissions")]
    ELSE LET sorted == [rr EXCEPT !.disc = SortNewestFirst(@), !.i = 1]
         IN [run |-> sorted, pc |-> LoopPc(sorted), cl |-> cl]

\* discoverRecentFilings after getCompanySubmissions has returned: null
\* makes the loop continue; a listing is filtered and the loop sleeps
AfterListing(cl, r, ok) ==
    LET rr == run[r]
        cik == rr.ciks[rr.e]
    IN IF ok
       THEN [run |-> [rr EXCEPT !.disc = @ \o ListingOf(cik, {"4"}, rr.daysBack, rr.cutoff, 1)],
             pc |-> "discover",
             cl |-> [cl EXCEPT !.caller[r] =
                        [at |-> "pausing", op |-> "", wake |-> now + LISTING_PAUSE]]]
       ELSE Discover(cl, r, [rr EXCEPT !.failed = @ \cup {cik}, !.e = NextEntity(rr, FALSE)])

\* processFiling after getFilingDocument has returned: the content, or
\* null, which processFiling turns into a throw
AfterDocument(cl, r, ok) ==
    IF ok
    THEN [run |-> [run[r] EXCEPT !.loc.content = Document(Discovery(r).doc)],
          pc |-> "createFiling", cl |-> cl]
    ELSE LET rr == AfterFiling([run[r] EXCEPT !.lost = Append(@, Discovery(r).acc)], FALSE)
         IN [run |-> rr, pc |-> LoopPc(rr), cl |-> cl]

\* the operation of caller c returns (ok: its value, otherwise null) to
\* discoverRecentFilings, to processFiling, or to a caller outside the runs
Returned(cl, c, ok) ==
    CASE pc[c] = "discover" -> AfterListing(cl, c, ok)
      [] pc[c] = "download" -> AfterDocument(cl, c, ok)
      [] OTHER -> [run |-> run[c], pc |-> pc[c], cl |-> cl]

\* the step of run r ends in out
Apply(r, out) ==
    /\ run' = [run EXCEPT ![r] = out.run]
    /\ pc' = [pc EXCEPT ![r] = out.pc]
    /\ caller' = out.cl.caller
    /\ lastRequestTime' = out.cl.lastRequestTime
    /\ starts' = out.cl.starts
    /\ downloads' = out.cl.downloads

\* a call of getCompanySubmissions or getFilingDocument from outside the
\* runs, up to the first await that takes time
CallClient(c, op) ==
    /\ pc[c] = "idle" /\ caller[c].at = "idle"
    /\ Apply(c, [run |-> run[c], pc |-> pc[c], cl |-> makeRequest(Client, c, op)])
    /\ UNCHANGED <<now, ends, filings, transactions, persons, companies, base, jobs, procVars>>

\* delay(): the timer fired (no earlier than asked); lastRequestTime is set
\* and fetch() is called
WakeUp(c) ==
    /\ caller[c].at = "sleeping"
    /\ now >= caller[c].wake
    /\ Apply(c, [run |-> run[c], pc |-> pc[c], cl |-> Fetch(Client, c, caller[c].op)])
    /\ UNCHANGED <<now, ends, filings, transactions, persons, companies, base, jobs, procVars>>

\* makeRequest after fetch() settled: an error, the timeout or a response
\* that is not ok is thrown, and the operation returns null; after an ok
\* response with X-RateLimit-Remaining below 5 makeRequest sleeps
\* THROTTLE_SLEEP before it returns the response; otherwise it returns it,
\* and the operation awaits the body
Respond(c) ==
    /\ caller[c].at = "fetching"
    /\ \E ok \in BOOLEAN, remaining \in RemainingChoices :
         LET low == ok /\ remaining # NONE /\ remaining < LOW_REMAINING
         IN /\ ends' = Append(ends, [at |-> now, started |-> Len(starts), low |-> low])
            /\ IF ok
               THEN Apply(c, [run |-> run[c], pc |-> pc[c],
                              cl |-> [Client EXCEPT !.caller[c] =
                                        IF low THEN [at |-> "throttled", op |-> caller[c].op,
                                                     wake |-> now + THROTTLE_SLEEP]
                                        ELSE [at |-> "reading", op |-> caller[c].op,
                                              wake |-> 0]]])
               ELSE Apply(c, Returned(Rethrow(Client, c), c, FALSE))
    /\ UNCHANGED <<now, filings, transactions, persons, companies, base, jobs, procVars>>

\* makeRequest: the timer of the throttle fired (no earlier than asked) and
\* the response is returned to the operation, which awaits the body
Resume(c) ==
    /\ caller[c].at = "throttled"
    /\ now >= caller[c].wake
    /\ caller' = [caller EXCEPT ![c].at = "reading", ![c].wake = 0]
    /\ UNCHANGED <<now, lastRequestTime, starts, ends, filings, pipeVars, jobs, procVars>>

\* response.json() of getCompanySubmissions or response.text() of
\* getFilingDocument settled: the operation returns the body, or null when
\* reading or parsing it failed
ReadBody(c) ==
    /\ caller[c].at = "reading"
    /\ \E ok \in BOOLEAN : Apply(c, Returned(Leave(Client, c), c, ok))
    /\ UNCHANGED <<now, ends, filings, transactions, persons, companies, base, jobs, procVars>>

\* discoverRecentFilings: the timer at the end of the loop body fired (no
\* earlier than asked), and the loop goes to the next entity
PauseEnds(r) ==
    /\ caller[r].at = "pausing"
    /\ now >= caller[r].wake
    /\ Apply(r, Discover(Leave(Client, r), r, [run[r] EXCEPT !.e = NextEntity(run[r], TRUE)]))
    /\ UNCHANGED <<now, ends, filings, transactions, persons, companies, base, jobs, procVars>>

\* time passes
Tick(ms) ==
    /\ now' = now + ms
    /\ UNCHANGED <<lastRequestTime, caller, starts, ends, filings, pipeVars, jobs, procVars>>

\* the calls of the operations made so far
Calls == Len(starts) + Cardinality({c \in Callers : caller[c].at = "sleeping"})

\* callers outside the runs, while the clock reads one of Times
NextRate ==
    \/ \E c \in Callers, op \in ClientOps : Calls < MaxCalls /\ CallClient(c, op)
    \/ \E c \in Callers : WakeUp(c)
    \/ \E c \in Callers : Respond(c)
    \/ \E c \in Callers : Resume(c)
    \/ \E c \in Callers : ReadBody(c)
    \/ \E ms \in {TickMs, THROTTLE_SLEEP} : Tick(ms) /\ now' \in Times

\* The clock of the runs goes on at any time, whatever the runs wait for
\* (a request, a body, a call of the store, a timer, which so may fire
\* late), by RATE_LIMIT_DELAY or by THROTTLE_SLEEP at a time, as long as it
\* reads one of the times that are at most ticks steps of RATE_LIMIT_DELAY
\* and MaxRunSleeps steps of THROTTLE_SLEEP after StartTime
MaxRunSleeps == 1
RunTimes(ticks) ==
    {StartTime + a * RATE_LIMIT_DELAY + b * THROTTLE_SLEEP :
        a \in 0..ticks, b \in 0..MaxRunSleeps}

ClockStep(ticks) ==
    \E ms \in {RATE_LIMIT_DELAY, THROTTLE_SLEEP} : Tick(ms) /\ now' \in RunTimes(ticks)

\* The clock read at a few instants only: it goes on to any later one of
\* them, whatever the runs wait for
ClockTo(times) == \E t \in times : t > now /\ Tick(t - now)

----------------------------------------------------------------------------
(* ingestRecentFilings *)

\* ingestRecentFilings(targetCiks, daysBack) up to its first await: of
\* prisma.company.findMany when no entities are given, and otherwise in
\* discoverRecentFilings, which reads the clock for the cutoff and asks for
\* the listing of the first entity
StartRunWith(r, targetCiks, daysBack) ==
    /\ pc[r] = "idle" /\ caller[r].at = "idle"
    /\ LET rr == [RunInit EXCEPT !.ciks = targetCiks, !.daysBack = daysBack,
                                 !.cutoff = now, !.e = 1]
       IN IF Len(targetCiks) = 0
          THEN Apply(r, [run |-> [RunInit EXCEPT !.daysBack = daysBack],
                         pc |-> "findMany", cl |-> Client])
          ELSE Apply(r, Discover(Client, r, rr))
    /\ base' = [base EXCEPT ![r] =
                  [quiet |-> \A q \in Runs \ {r} : pc[q] \in {"idle", "done"},
                   filings |-> filings, transactions |-> transactions]]
    /\ UNCHANGED <<now, ends, filings, transactions, persons, companies, jobs, procVars>>

\* a call of ingestRecentFilings
StartRun(r) ==
    \E targetCiks \in TargetChoices, daysBack \in DaysBackChoices :
        StartRunWith(r, targetCiks, daysBack)

\* ingestRecentFilings: prisma.company.findMany has answered, and
\* discoverRecentFilings is called with the ciks of the companies
FindMany(r) ==
    /\ pc[r] = "findMany"
    /\ Apply(r, Discover(Client, r, [run[r] EXCEPT !.ciks = CompanyCiks(companies, 1),
                                                   !.cutoff = now, !.e = 1]))
    /\ UNCHANGED <<now, ends, filings, transactions, persons, companies, base, jobs, procVars>>

----------------------------------------------------------------------------
(* processFiling *)

\* A loop that does not count a filing that the checksum guard skipped
FindExisting_SkipUncounted(r) ==
    /\ pc[r] = "findUnique"
    /\ LET d == Discovery(r)
           rr == [run[r] EXCEPT !.attempted = Append(@, d.acc)]
           skipped == [rr EXCEPT !.i = @ + 1, !.loc = NoLocals]
       IN IF FindFilingByChecksum(filings, Checksum(d.cik, d.acc)) # {}
          THEN Apply(r, [run |-> skipped, pc |-> LoopPc(skipped), cl |-> Client])
          ELSE Apply(r, [run |-> rr, pc |-> "download",
                         cl |-> makeRequest(Client, r, "getFilingDocument")])
    /\ UNCHANGED <<now, ends, filings, transactions, persons, companies, base, jobs, procVars>>

\* The call processFiling(discovery) up to the answer of findUnique: an
\* existing row makes it return at once; otherwise getFilingDocument is
\* called, up to the first await of makeRequest that takes time
FindExisting(r) ==
    /\ pc[r] = "findUnique"
    /\ LET d == Discovery(r)
           rr == [run[r] EXCEPT !.attempted = Append(@, d.acc)]
       IN IF FindFilingByChecksum(filings, Checksum(d.cik, d.acc)) # {}
          THEN Apply(r, [run |-> AfterFiling(rr, TRUE), pc |-> LoopPc(AfterFiling(rr, TRUE)),
                         cl |-> Client])
          ELSE Apply(r, [run |-> rr, pc |-> "download",
                         cl |-> makeRequest(Client, r, "getFilingDocument")])
    /\ UNCHANGED <<now, ends, filings, transactions, persons, companies, base, jobs, procVars>>

\* A loop that saves the first draft only
NextDraftPc_FirstOnly(loc) ==
    IF loc.k < 1 /\ loc.k < Len(loc.drafts) THEN "findPerson" ELSE "markCompleted"

\* saveTransactions: the loop over the drafts, after draft k is done;
\* after the last one processFiling goes on to mark the filing COMPLETED
NextDraftPc(loc) == IF loc.k < Len(loc.drafts) THEN "findPerson" ELSE "markCompleted"

NextDraft(loc) ==
    [loc EXCEPT !.k = @ + 1, !.person = NONE, !.company = NONE]

\* prisma.filing.create in status PENDING, then (without an await between)
\* parseForm4 and the entry of saveTransactions
CreateFiling(r) ==
    /\ pc[r] = "createFiling"
    /\ LET d == Discovery(r)
           cs == Checksum(d.cik, d.acc)
           id == NewId(filings)
       IN IF ChecksumTaken(filings, cs)
          THEN \* unique constraint violation: processFiling throws
               /\ run' = [run EXCEPT ![r] = AfterFiling(run[r], FALSE)]
               /\ pc' = [pc EXCEPT ![r] = LoopPc(AfterFiling(run[r], FALSE))]
               /\ UNCHANGED filings
          ELSE /\ filings' = filings \cup
                    {[id |-> id, checksum |-> cs, url |-> FilingUrl(d),
                      accessionNo |-> d.acc, formType |-> d.form,
                      rawXml |-> run[r].loc.content, status |-> "PENDING"]}
               /\ LET parsed == ParseForm4(run[r].loc.content)
                      loc == [run[r].loc EXCEPT !.fid = id, !.drafts = parsed.drafts, !.k = 0]
                  IN IF d.form # "4"
                     THEN /\ run' = [run EXCEPT ![r] = AfterFiling(run[r], TRUE)]
                          /\ pc' = [pc EXCEPT ![r] = LoopPc(AfterFiling(run[r], TRUE))]
                     ELSE IF ~parsed.ok
                     THEN /\ run' = [run EXCEPT ![r].loc = loc]
                          /\ pc' = [pc EXCEPT ![r] = "markFailed"]
                     ELSE /\ run' = [run EXCEPT ![r].loc = NextDraft(loc)]
                          /\ pc' = [pc EXCEPT ![r] = NextDraftPc(loc)]
    /\ UNCHANGED <<transactions, persons, companies, downloads, base, jobs, rateVars, procVars>>

Draft(r) == run[r].loc.drafts[run[r].loc.k]

\* saveTransactions: prisma.person.findFirst
FindPerson(r) ==
    /\ pc[r] = "findPerson"
    /\ LET found == FindPersons(persons, Draft(r).personName)
       IN IF found = {}
          THEN /\ pc' = [pc EXCEPT ![r] = "createPerson"]
               /\ UNCHANGED run
          ELSE \E p \in found :
                 /\ run' = [run EXCEPT ![r].loc.person = p.id]
                 /\ pc' = [pc EXCEPT ![r] = "findCompany"]
    /\ UNCHANGED <<filings, transactions, persons, companies, downloads, base, jobs, rateVars, procVars>>

\* saveTransactions: prisma.person.create
CreatePerson(r) ==
    /\ pc[r] = "createPerson"
    /\ LET id == NewId(persons)
       IN /\ persons' = persons \cup
               {[id |-> id, name |-> Draft(r).personName, type |-> "CORPORATE_INSIDER",
                 title |-> Draft(r).personTitle]}
          /\ run' = [run EXCEPT ![r].loc.person = id]
    /\ pc' = [pc EXCEPT ![r] = "findCompany"]
    /\ UNCHANGED <<filings, transactions, companies, downloads, base, jobs, rateVars, procVars>>

\* saveTransactions: prisma.company.findFirst
FindCompany(r) ==
    /\ pc[r] = "findCompany"
    /\ LET found == FindCompanies(companies, Discovery(r).cik,
                                  Draft(r).companyTicker, Draft(r).companyName)
       IN IF found = {}
          THEN /\ pc' = [pc EXCEPT ![r] = "createCompany"]
               /\ UNCHANGED run
          ELSE \E c \in found :
                 /\ run' = [run EXCEPT ![r].loc.company = c.id]
                 /\ pc' = [pc EXCEPT ![r] = "createTransaction"]
    /\ UNCHANGED <<filings, transactions, persons, companies, downloads, base, jobs, rateVars, procVars>>

\* saveTransactions: prisma.company.create; a rejected create is caught by
\* the try around the draft, which goes on with the next draft
CreateCompany(r) ==
    /\ pc[r] = "createCompany"
    /\ IF TickerTaken(companies, Draft(r).companyTicker)
       THEN /\ run' = [run EXCEPT ![r].loc = NextDraft(@)]
            /\ pc' = [pc EXCEPT ![r] = NextDraftPc(run[r].loc)]
            /\ UNCHANGED companies
       ELSE LET id == NewId(companies)
            IN /\ companies' = companies \cup
                    {[id |-> id, name |-> Draft(r).companyName,
                      ticker |-> Draft(r).companyTicker, cik |-> Discovery(r).cik]}
               /\ run' = [run EXCEPT ![r].loc.company = id]
               /\ pc' = [pc EXCEPT ![r] = "createTransaction"]
    /\ UNCHANGED <<filings, transactions, persons, downloads, base, jobs, rateVars, procVars>>

\* saveTransactions: prisma.transaction.create; new Date(transactionDate)
\* that is no date is rejected, and the try around the draft catches it
CreateTransaction(r) ==
    /\ pc[r] = "createTransaction"
    /\ LET t == Draft(r)
       IN IF ~ValidDate(t.transactionDate)
          THEN UNCHANGED transactions
          ELSE transactions' = transactions \cup
                 {[id |-> NewId(transactions), personId |-> run[r].loc.person,
                   companyId |-> run[r].loc.company, filingId |-> run[r].loc.fid,
                   tradeType |-> IF StrictEquals(t.transactionCode, "A") THEN "BUY"
                                ELSE "SELL",
                   quantity |-> t.shares, price |-> t.pricePerShare,
                   estimatedValue |-> EstimatedValue(t),
                   transactionDate |-> NewDate(t.transactionDate)]}
    /\ run' = [run EXCEPT ![r].loc = NextDraft(@)]
    /\ pc' = [pc EXCEPT ![r] = NextDraftPc(run[r].loc)]
    /\ UNCHANGED <<filings, persons, companies, downloads, base, jobs, rateVars, procVars>>

\* processFiling: prisma.filing.update to COMPLETED, then it returns
MarkCompleted(r) ==
    /\ pc[r] = "markCompleted"
    /\ filings' = UpdateStatus(filings, run[r].loc.fid, "COMPLETED")
    /\ run' = [run EXCEPT ![r] = AfterFiling(run[r], TRUE)]
    /\ pc' = [pc EXCEPT ![r] = LoopPc(AfterFiling(run[r], TRUE))]
    /\ UNCHANGED <<transactions, persons, companies, downloads, base, jobs, rateVars, procVars>>

\* processFiling, the catch: prisma.filing.update to FAILED, then rethrow
MarkFailed(r) ==
    /\ pc[r] = "markFailed"
    /\ filings' = UpdateStatus(filings, run[r].loc.fid, "FAILED")
    /\ run' = [run EXCEPT ![r] = AfterFiling(run[r], FALSE)]
    /\ pc' = [pc EXCEPT ![r] = LoopPc(AfterFiling(run[r], FALSE))]
    /\ UNCHANGED <<transactions, persons, companies, downloads, base, jobs, rateVars, procVars>>

\* the steps of processFiling up to parseForm4: the checksum guard and the
\* creation of the row
FilingStep(r) ==
    \/ FindExisting(r)
    \/ CreateFiling(r)

\* the steps of saveTransactions, and the update to COMPLETED after it
SaveStep(r) ==
    \/ FindPerson(r)
    \/ CreatePerson(r)
    \/ FindCompany(r)
    \/ CreateCompany(r)
    \/ CreateTransaction(r)
    \/ MarkCompleted(r)

\* the steps of an ingest run that has started when a call of the store
\* has answered
StoreStep(r) ==
    \/ FindMany(r)
    \/ FilingStep(r)
    \/ SaveStep(r)
    \/ MarkFailed(r)

\* the steps of an ingest run that has started: those above, those of the
\* client for it, and the timer of discoverRecentFilings
RunStep(r) ==
    \/ StoreStep(r)
    \/ WakeUp(r)
    \/ Respond(r)
    \/ Resume(r)
    \/ ReadBody(r)
    \/ PauseEnds(r)

\* the responses that set off the throttle
Throttles(es) == Cardinality({n \in DOMAIN es : es[n].low})

\* the requests of the runs that failed: listings and documents
Failures(rn) ==
    LET n(r) == Cardinality(rn[r].failed) + Len(rn[r].lost)
    IN n(1) + n(2)

\* requests of the runs that fail, and responses to them that carry a low
\* X-RateLimit-Remaining
MaxFailures == 1

\* a response or a body within these bounds
Answer(r) ==
    \/ Respond(r) /\ Throttles(ends') <= MaxThrottles /\ Failures(run') <= MaxFailures
    \/ ReadBody(r) /\ Failures(run') <= MaxFailures

\* the steps of the client for a run whose request has been sent, and the
\* end of the pause of discoverRecentFilings
ClientStep(r) ==
    \/ Answer(r)
    \/ Resume(r)
    \/ PauseEnds(r)

\* Two calls of ingestRecentFilings for the first entity of the archive and
\* the short window, the second made at any time: while the first is in
\* progress, or after it has returned. The one document in the window is
\* one that parseForm4 accepts, so processFiling never gets to its catch
\* block (MarkFailed).
PairTargets == << Archive[1].cik >>
PairDaysBack == 2
PairTicks == 3

Next ==
    \/ \E r \in Runs : StartRunWith(r, PairTargets, PairDaysBack)
    \/ \E r \in Runs : FilingStep(r)
    \/ \E r \in Runs : SaveStep(r)
    \/ \E r \in Runs : WakeUp(r)
    \/ \E r \in Runs : ClientStep(r)
    \/ ClockStep(PairTicks)

Spec == Init /\ [][Next]_vars

\* Two calls of ingestRecentFilings for the first entity of the archive (or
\* for the entities of the Company table) and the long window, in which it
\* has two filings; the second call is made at any time. parseForm4 accepts
\* both documents.
BatchTargets == { << >>, << Archive[1].cik >> }
BatchDaysBack == 7

\* the instants of the clock: the start, when a throttle sleep that began
\* then is over, and a pause and then a request delay later
BatchTimes ==
    {StartTime, StartTime + THROTTLE_SLEEP, StartTime + THROTTLE_SLEEP + LISTING_PAUSE,
     StartTime + THROTTLE_SLEEP + LISTING_PAUSE + RATE_LIMIT_DELAY}

NextBatch ==
    \/ \E r \in Runs, targetCiks \in BatchTargets : StartRunWith(r, targetCiks, BatchDaysBack)
    \/ \E r \in Runs : FindMany(r)
    \/ \E r \in Runs : FilingStep(r)
    \/ \E r \in Runs : SaveStep(r)
    \/ \E r \in Runs : WakeUp(r)
    \/ \E r \in Runs : ClientStep(r)
    \/ ClockTo(BatchTimes)

SpecBatch == Init /\ [][NextBatch]_vars

\* One call of ingestRecentFilings, for any of the entity lists and windows
OneTicks == 6

NextOne ==
    \/ StartRun(1)
    \/ StoreStep(1)
    \/ WakeUp(1)
    \/ ClientStep(1)
    \/ ClockStep(OneTicks)

SpecOne == Init /\ [][NextOne]_vars

\* A call of ingestRecentFilings over a long lookback window for the
\* entities whose issuers have no trading symbol
LongLookback == 40
UnlistedTargetChoices == { << <<"2">> >>, << <<"3">> >>, << <<"2">>, <<"3">> >> }
UnlistedTicks == 6

NextUnlisted ==
    \/ \E targetCiks \in UnlistedTargetChoices : StartRunWith(1, targetCiks, LongLookback)
    \/ FilingStep(1)
    \/ SaveStep(1)
    \/ MarkFailed(1)
    \/ WakeUp(1)
    \/ ClientStep(1)
    \/ ClockStep(UnlistedTicks)

SpecUnlisted == Init /\ [][NextUnlisted]_vars

----------------------------------------------------------------------------
(* The job queues (BullMQ) *)

Queues == {"sec-filing", "politician-filing", "alerts", "enrichment"}

\* Queues configured with one attempt more
Attempts_OneMore(q) ==
    CASE q = "sec-filing" -> 4
      [] q = "politician-filing" -> 4
      [] q = "alerts" -> 6
      [] q = "enrichment" -> 3

\* defaultJobOptions.attempts of each queue
Attempts(q) ==
    CASE q = "sec-filing" -> 3
      [] q = "politician-filing" -> 3
      [] q = "alerts" -> 5
      [] q = "enrichment" -> 2

\* Workers that run one job more at a time
Concurrency_OneMore(q) ==
    CASE q = "sec-filing" -> 6
      [] q = "politician-filing" -> 4
      [] q = "alerts" -> 11
      [] q = "enrichment" -> 9

\* concurrency of each queue's worker
Concurrency(q) ==
    CASE q = "sec-filing" -> 5
      [] q = "politician-filing" -> 3
      [] q = "alerts" -> 10
      [] q = "enrichment" -> 8

\* A job: valid says that the data its type requires is present
\* (url and accessionNo for fetch, filingId for parse, ...). Where the
\* handler of an active job is: created is the id of the Filing that a
\* fetch job has created, added the number of fetch jobs that a discover
\* job has queued.
Job(q, type, valid, acc, filingId) ==
    [queue |-> q, type |-> type, valid |-> valid, acc |-> acc, filingId |-> filingId,
     attemptsMade |-> 0, state |-> "waiting", created |-> NONE, added |-> 0]

\* fetchSecFiling: rawXml "<mock>XML content</mock>"
MockXml == Rootless(Doc("", "", "", "", NoTable))

\* discoverSecFilings: mockFilings
MockFilings == << <<"0000320193-25-000001">>, <<"0000789019-25-000002">> >>

\* jobs a caller of queue.add may add from outside the workers
JobInputs ==
    { Job("sec-filing", "discover", TRUE, << >>, NONE),
      Job("sec-filing", "fetch", TRUE, MockFilings[1], NONE),
      Job("sec-filing", "parse", FALSE, << >>, NONE),
      Job("politician-filing", "fetch-pdf", TRUE, << >>, NONE),
      Job("politician-filing", "fetch-pdf", FALSE, << >>, NONE),
      Job("alerts", "send-email", FALSE, << >>, NONE),
      Job("enrichment", "update-prices", FALSE, << >>, NONE) }

One(j) == SetToBag({j})

\* defaultJobOptions.removeOnFail and removeOnComplete of each queue: the
\* number of failed and of completed jobs that BullMQ keeps
RemoveOnFail(q) ==
    CASE q = "sec-filing" -> 50
      [] q = "politician-filing" -> 50
      [] q = "alerts" -> 100
      [] q = "enrichment" -> 25

RemoveOnComplete(q) ==
    CASE q = "sec-filing" -> 100
      [] q = "politician-filing" -> 100
      [] q = "alerts" -> 500
      [] q = "enrichment" -> 50

\* the jobs of queue q in state st, of a bag of jobs
JobsOf(js, q, st) == {j \in BagToSet(js) : j.queue = q /\ j.state = st}

\* queue.getWaiting(), getActive(), getCompleted(), getFailed(): .length
CountOf(js, q, st) ==
    LET RECURSIVE Sum(_)
        Sum(S) == IF S = {} THEN 0
                  ELSE LET j == CHOOSE x \in S : TRUE
                       IN CopiesIn(j, js) + Sum(S \ {j})
    IN Sum(JobsOf(js, q, st))

\* the number of jobs of a bag that are in a set
CountJobs(js, S) ==
    LET RECURSIVE Sum(_)
        Sum(T) == IF T = {} THEN 0
                  ELSE LET j == CHOOSE x \in T : TRUE
                       IN CopiesIn(j, js) + Sum(T \ {j})
    IN Sum(S \cap BagToSet(js))

\* The active job j ends its attempt as j2. A job that completes or fails
\* for good joins the completed or failed set of its queue, and BullMQ then
\* removes the oldest jobs of that set beyond the number it keeps. The bag
\* keeps no order of finishing: the job removed is one of the set, another
\* one than j2 when there is one.
Finish(js, j, j2) ==
    LET after == (js (-) One(j)) (+) One(j2)
        keep == IF j2.state = "failed" THEN RemoveOnFail(j2.queue)
                ELSE RemoveOnComplete(j2.queue)
        set == JobsOf(after, j2.queue, j2.state)
    IN IF j2.state \in {"completed", "failed"} /\ CountOf(after, j2.queue, j2.state) > keep
       THEN after (-) One(IF set = {j2} THEN j2 ELSE CHOOSE x \in set : x # j2)
       ELSE after

JobsIn(st) == {j \in BagToSet(jobs) : j.state = st}

ActiveCount(q) ==
    LET act == {j \in JobsIn("active") : j.queue = q}
        RECURSIVE Sum(_)
        Sum(S) == IF S = {} THEN 0
                  ELSE LET j == CHOOSE x \in S : TRUE
                       IN CopiesIn(j, jobs) + Sum(S \ {j})
    IN Sum(act)

\* queue.add from outside the workers
AddJob(j) ==
    /\ j \in JobInputs
    /\ jobs' = jobs (+) One(j)
    /\ UNCHANGED <<filings, pipeVars, rateVars, procVars>>

\* The worker takes a waiting job, or a retried one whose backoff delay has
\* passed, while it runs fewer jobs than its concurrency; a worker that is
\* closing (worker.close()) takes no job.
PickJob(j) ==
    /\ lifecycle.phase = "running"
    /\ j \in JobsIn("waiting") \cup JobsIn("delayed")
    /\ ActiveCount(j.queue) < Concurrency(j.queue)
    /\ jobs' = (jobs (-) One(j)) (+) One([j EXCEPT !.state = "active"])
    /\ UNCHANGED <<filings, pipeVars, rateVars, procVars>>

\* The handler returned: the job is completed.
Completed(j) == [j EXCEPT !.state = "completed", !.attemptsMade = @ + 1]

\* The handler threw: BullMQ retries the job after its backoff delay while
\* attemptsMade + 1 < attempts, and otherwise moves it to failed.
Thrown(j) ==
    [j EXCEPT !.attemptsMade = @ + 1, !.created = NONE, !.added = 0,
              !.state = IF j.attemptsMade + 1 < Attempts(j.queue)
                        THEN "delayed" ELSE "failed"]

\* The handlers whose body is a mock: they throw when the data their type
\* requires is missing ("Missing ... for ... job"), and return otherwise.
RunSimpleJob(j) ==
    /\ j \in JobsIn("active")
    /\ j.queue # "sec-filing" \/ ~j.valid
    /\ jobs' = Finish(jobs, j, IF j.valid THEN Completed(j) ELSE Thrown(j))
    /\ UNCHANGED <<filings, pipeVars, rateVars, procVars>>

\* discoverSecFilings, one turn of its loop: the await of
\* secFilingQueue.add("fetch", ...) for the next of the mockFilings
\* resolves; after the last one the handler returns
DiscoverSecFilings(j) ==
    /\ j \in JobsIn("active")
    /\ j.queue = "sec-filing" /\ j.type = "discover" /\ j.valid
    /\ LET n == j.added + 1
           fetch == Job("sec-filing", "fetch", TRUE, MockFilings[n], NONE)
       IN jobs' = IF n < Len(MockFilings)
                  THEN ((jobs (-) One(j)) (+) One([j EXCEPT !.added = n])) (+) One(fetch)
                  ELSE Finish(jobs, j, Completed([j EXCEPT !.added = n])) (+) One(fetch)
    /\ UNCHANGED <<filings, pipeVars, rateVars, procVars>>

\* discoverSecFilings: secFilingQueue.add("fetch", ...) rejects (Redis does
\* not answer within maxRetriesPerRequest); the handler throws, and the
\* fetch jobs it has queued stay
DiscoverAddFails(j) ==
    /\ j \in JobsIn("active")
    /\ j.queue = "sec-filing" /\ j.type = "discover" /\ j.valid
    /\ jobs' = Finish(jobs, j, Thrown(j))
    /\ UNCHANGED <<filings, pipeVars, rateVars, procVars>>

\* fetchSecFiling up to prisma.filing.create, which throws on a taken checksum
FetchCreate(j) ==
    /\ j \in JobsIn("active")
    /\ j.queue = "sec-filing" /\ j.type = "fetch" /\ j.valid /\ j.created = NONE
    /\ IF ChecksumTaken(filings, MockChecksum(j.acc))
       THEN /\ jobs' = Finish(jobs, j, Thrown(j))
            /\ UNCHANGED filings
       ELSE LET id == NewId(filings)
            IN /\ filings' = filings \cup
                    {[id |-> id, checksum |-> MockChecksum(j.acc), url |-> <<"url">>,
                      accessionNo |-> j.acc, formType |-> "4",
                      rawXml |-> MockXml, status |-> "PENDING"]}
               /\ jobs' = (jobs (-) One(j)) (+) One([j EXCEPT !.created = id])
    /\ UNCHANGED <<pipeVars, rateVars, procVars>>

\* A fetch that returns without queueing the parse job
FetchEnqueueParse_NoParse(j) ==
    /\ j \in JobsIn("active")
    /\ j.queue = "sec-filing" /\ j.type = "fetch" /\ j.created # NONE
    /\ jobs' = Finish(jobs, j, Completed(j))
    /\ UNCHANGED <<filings, pipeVars, rateVars, procVars>>

\* fetchSecFiling: secFilingQueue.add("parse", { filingId }), then it returns
FetchEnqueueParse(j) ==
    /\ j \in JobsIn("active")
    /\ j.queue = "sec-filing" /\ j.type = "fetch" /\ j.created # NONE
    /\ jobs' = Finish(jobs, j, Completed(j))
                 (+) One(Job("sec-filing", "parse", TRUE, << >>, j.created))
    /\ UNCHANGED <<filings, pipeVars, rateVars, procVars>>

\* parseSecFiling: prisma.filing.update to COMPLETED, which throws when no
\* row has the id
ParseSecFiling(j) ==
    /\ j \in JobsIn("active")
    /\ j.queue = "sec-filing" /\ j.type = "parse" /\ j.valid
    /\ IF \E f \in filings : f.id = j.filingId
       THEN /\ filings' = UpdateStatus(filings, j.filingId, "COMPLETED")
            /\ jobs' = Finish(jobs, j, Completed(j))
       ELSE /\ jobs' = Finish(jobs, j, Thrown(j))
            /\ UNCHANGED filings
    /\ UNCHANGED <<pipeVars, rateVars, procVars>>

\* the queues never hold more than MaxJobs jobs
NextQueue ==
    \/ \E j \in JobInputs : AddJob(j) /\ BagCardinality(jobs') <= MaxJobs
    \/ \E j \in BagToSet(jobs) :
        \/ PickJob(j)
        \/ RunSimpleJob(j)
        \/ DiscoverSecFilings(j) /\ BagCardinality(jobs') <= MaxJobs
        \/ DiscoverAddFails(j)
        \/ FetchCreate(j)
        \/ FetchEnqueueParse(j) /\ BagCardinality(jobs') <= MaxJobs
        \/ ParseSecFiling(j)

SpecQueue == Init /\ [][NextQueue]_vars

SpecRate == Init /\ [][NextRate]_vars

\* Two calls of ingestRecentFilings for the second entity of the archive,
\* the second made at any time, together with the fetch and parse jobs of
\* the sec-filing queue, which write the same Filing table. parseForm4
\* throws on the one document in the window, so processFiling goes from
\* the creation of the row to its catch block and saveTransactions is not
\* called.
FetchInputs == {j \in JobInputs : j.type = "fetch"}

AllTargets == << Archive[4].cik >>
AllDaysBack == 7
AllTicks == 1

NextAll ==
    \/ \E r \in Runs : StartRunWith(r, AllTargets, AllDaysBack)
    \/ \E r \in Runs : FilingStep(r)
    \/ \E r \in Runs : MarkFailed(r)
    \/ \E r \in Runs : WakeUp(r)
    \/ \E r \in Runs : ClientStep(r)
    \/ ClockStep(AllTicks)
    \/ \E j \in FetchInputs : AddJob(j) /\ BagCardinality(jobs') <= MaxFetchJobs
    \/ \E j \in BagToSet(jobs) :
        \/ PickJob(j)
        \/ FetchCreate(j)
        \/ FetchEnqueueParse(j) /\ BagCardinality(jobs') <= MaxJobs
        \/ ParseSecFiling(j)

SpecAll == Init /\ [][NextAll]_vars

\* The same two calls beside one fetch job and its parse job, the clock
\* being read at four instants: at the start, after the first run's pause
\* and a throttle sleep are over, and after the request delay and the pause
\* of a run that starts then.
AgainTimes ==
    {StartTime, StartTime + THROTTLE_SLEEP, StartTime + THROTTLE_SLEEP + RATE_LIMIT_DELAY,
     StartTime + THROTTLE_SLEEP + RATE_LIMIT_DELAY + LISTING_PAUSE}

NextAgain ==
    \/ \E r \in Runs : StartRunWith(r, AllTargets, AllDaysBack)
    \/ \E r \in Runs : FilingStep(r)
    \/ \E r \in Runs : MarkFailed(r)
    \/ \E r \in Runs : WakeUp(r)
    \/ \E r \in Runs : ClientStep(r)
    \/ ClockTo(AgainTimes)
    \/ \E j \in FetchInputs : AddJob(j) /\ BagCardinality(jobs') <= MaxLiveJobs
    \/ \E j \in BagToSet(jobs) :
        \/ PickJob(j)
        \/ FetchCreate(j)
        \/ FetchEnqueueParse(j) /\ BagCardinality(jobs') <= MaxJobs
        \/ ParseSecFiling(j)

SpecAgain == Init /\ [][NextAgain]_vars

----------------------------------------------------------------------------
(* The lifecycle of a Filing under failures of the queue and of the store *)

\* fetchSecFiling: secFilingQueue.add("parse", ...) rejects (Redis does not
\* answer within maxRetriesPerRequest); the handler throws after the Filing
\* was created
FetchEnqueueFails(j) ==
    /\ j \in JobsIn("active")
    /\ j.queue = "sec-filing" /\ j.type = "fetch" /\ j.created # NONE
    /\ jobs' = Finish(jobs, j, Thrown(j))
    /\ UNCHANGED <<filings, pipeVars, rateVars, procVars>>

\* parseSecFiling: prisma.filing.update rejects (the database does not
\* answer); the handler throws and the Filing is as it was
ParseUpdateFails(j) ==
    /\ j \in JobsIn("active")
    /\ j.queue = "sec-filing" /\ j.type = "parse" /\ j.valid
    /\ jobs' = Finish(jobs, j, Thrown(j))
    /\ UNCHANGED <<filings, pipeVars, rateVars, procVars>>

\* the steps of the workers of the sec-filing queue on fetch and parse jobs
ChainStep ==
    \E j \in BagToSet(jobs) :
        \/ PickJob(j)
        \/ FetchCreate(j)
        \/ FetchEnqueueParse(j)
        \/ FetchEnqueueFails(j)
        \/ ParseSecFiling(j)
        \/ ParseUpdateFails(j)

\* One ingest run for the first entity of the archive and the short window,
\* and up to MaxLiveJobs fetch jobs. The requests of the one run are at
\* least LISTING_PAUSE apart, so makeRequest never sleeps before one
\* (WakeUp), and parseForm4 accepts the document (no MarkFailed).
LiveTicks == 3

NextLive ==
    \/ StartRunWith(1, PairTargets, PairDaysBack)
    \/ FilingStep(1)
    \/ SaveStep(1)
    \/ ClientStep(1)
    \/ ClockStep(LiveTicks)
    \/ \E j \in FetchInputs : AddJob(j) /\ BagCardinality(jobs') <= MaxLiveJobs
    \/ ChainStep

\* A run that has started goes on to its next await, its timers fire, and
\* the workers go on with the jobs they hold and take the jobs that wait.
Progress == RunStep(1) \/ ChainStep

SpecLive == Init /\ [][NextLive]_vars /\ WF_vars(Progress)

----------------------------------------------------------------------------
(* Health monitoring *)

\* getQueueHealth asks the queues in this order, one await for each of the
\* three counts of a queue, after the one await (Promise.all) for the four
\* getWaiting()
HealthOrder == <<"sec-filing", "politician-filing", "alerts", "enrichment">>
Getters == <<"active", "completed", "failed">>

\* the awaits of one call after the first
HealthReads == Len(HealthOrder) * Len(Getters)

\* a count put into the result of a call
WithCount(out, q, st, n) ==
    [out EXCEPT ![q] = CASE st = "waiting" -> [@ EXCEPT !.waiting = n]
                         [] st = "active" -> [@ EXCEPT !.active = n]
                         [] st = "completed" -> [@ EXCEPT !.completed = n]
                         [] st = "failed" -> [@ EXCEPT !.failed = n]]

\* A call of getQueueHealth. asked: the queues whose getWaiting() has not
\* answered; at: the number of the await it is at after Promise.all has
\* resolved (0 before, HealthReads + 1 when it has returned); out: the
\* result as far as it is known: a count that was not answered yet is 0.
NewCall == [asked |-> Queues, at |-> 0, out |-> [q \in Queues |-> NoCounts]]

\* the calls in progress with call k replaced by k2
Replace(calls, k, k2) == (calls (-) One(k)) (+) One(k2)

\* GET of the admin route calls getQueueHealth() (each request makes its
\* own call): the getWaiting() of the four queues are called, and
\* Promise.all of them is awaited
GetQueueHealth ==
    /\ health' = [health EXCEPT !.calls = @ (+) One(NewCall)]
    /\ UNCHANGED <<filings, pipeVars, jobs, rateVars, repeat, lifecycle, parser, agent>>

\* getWaiting() of queue q answers a call: .length of it is the waiting
\* count of the queue; with the last of the four Promise.all resolves
GetWaiting(k, q) ==
    /\ k \in BagToSet(health.calls)
    /\ q \in k.asked
    /\ health' = [health EXCEPT !.calls = Replace(@, k,
                     [asked |-> k.asked \ {q},
                      at |-> IF k.asked = {q} THEN 1 ELSE 0,
                      out |-> WithCount(k.out, q, "waiting", CountOf(jobs, q, "waiting"))])]
    /\ UNCHANGED <<filings, pipeVars, jobs, rateVars, repeat, lifecycle, parser, agent>>

\* getQueueHealth, its next await: getActive(), getCompleted() or
\* getFailed() of the next queue resolves; after the last one it returns
GetNextCount(k) ==
    /\ k \in BagToSet(health.calls)
    /\ k.at \in 1..HealthReads
    /\ LET q == HealthOrder[((k.at - 1) \div Len(Getters)) + 1]
           st == Getters[((k.at - 1) % Len(Getters)) + 1]
       IN health' = [health EXCEPT !.calls = Replace(@, k,
                       [k EXCEPT !.at = @ + 1,
                                 !.out = WithCount(@, q, st, CountOf(jobs, q, st))])]
    /\ UNCHANGED <<filings, pipeVars, jobs, rateVars, repeat, lifecycle, parser, agent>>

\* GET of the admin route after getQueueHealth() has returned: the result
\* goes out in the response
RouteResponds(k) ==
    /\ k \in BagToSet(health.calls)
    /\ k.at = HealthReads + 1
    /\ health' = [health EXCEPT !.calls = @ (-) One(k)]
    /\ UNCHANGED <<filings, pipeVars, jobs, rateVars, repeat, lifecycle, parser, agent>>

\* enrichment jobs whose handler throws at every attempt
FailingInputs == {j \in JobInputs : j.queue = "enrichment" /\ ~j.valid}

\* politician-filing jobs whose handler returns
PdfInputs == {j \in JobInputs : j.queue = "politician-filing" /\ j.valid}

\* the jobs of a queue that have neither completed nor failed for good
Unfinished(js, q) ==
    CountJobs(js, {j \in BagToSet(js) : j.queue = q /\ j.state \notin {"completed", "failed"}})

\* the jobs that a queue holds
Held(js, q) == CountJobs(js, {j \in BagToSet(js) : j.queue = q})

\* requests of the admin route begin when the enrichment queue holds
\* HealthFrom jobs
HealthFrom == MaxFailingJobs - 1

\* The enrichment queue never holds more than MaxFailingJobs jobs, of which
\* no more than MaxUnfinished are unfinished, and the politician-filing
\* queue no more than MaxBackground; no more than MaxHealthCalls requests of
\* the admin route are in progress at a time.
NextHealth ==
    \/ \E j \in FailingInputs :
         AddJob(j) /\ Held(jobs', j.queue) <= MaxFailingJobs
                   /\ Unfinished(jobs', j.queue) <= MaxUnfinished
    \/ \E j \in PdfInputs : AddJob(j) /\ Held(jobs', j.queue) <= MaxBackground
    \/ \E j \in BagToSet(jobs) :
        \/ PickJob(j)
        \/ RunSimpleJob(j)
    \/ /\ GetQueueHealth
       /\ BagCardinality(health'.calls) <= MaxHealthCalls
       /\ Held(jobs, "enrichment") >= HealthFrom
    \/ \E k \in BagToSet(health.calls) :
        \/ \E q \in Queues : GetWaiting(k, q)
        \/ GetNextCount(k)
        \/ RouteResponds(k)

SpecHealth == Init /\ [][NextHealth]_vars

----------------------------------------------------------------------------
(* parseForm4 on its own *)

\* line items: two that are complete (one without a price), one with the
\* share count 0, one with a share count that is no number, one with a
\* share count that starts with a number, one without a date, one whose
\* date and one whose code the parser reads as a number
ItemKinds ==
    { Item(Text("2025-01-10"), Text("A"), Num(25), Num(2)),
      Item(Num(CompactDate), Text("A"), Num(3), Num(1)),
      Item(Text("2025-01-10"), Num(4), Num(3), Num(1)),
      Item(Text("2025-01-11"), Text("D"), Num(10), Absent),
      Item(Text("2025-01-12"), Text("A"), Num(0), Num(1)),
      Item(Text("2025-01-12"), Text("A"), Text("abc"), Num(1)),
      Item(Text("2025-01-13"), Text("A"), Prefixed(12, "12abc"), Num(1)),
      Item(Absent, Text("A"), Num(5), Num(1)) }

\* the shapes of nonDerivativeTransaction
Tables ==
    {NoTable} \cup {BareObject(it) : it \in ItemKinds}
        \cup {ArrayOf(its) : its \in UNION {[1..n -> ItemKinds] : n \in 0..MaxItems}}

\* the documents given to parseForm4: one that xmlParser.parse rejects, the
\* documents with an ownershipDocument, the same elements without the
\* container around them, and a page that has none of the elements
WithContainer == {Doc("P", "CEO", "N1", "T1", t) : t \in Tables}

ParseInputs ==
    {Malformed} \cup WithContainer \cup {Rootless(doc) : doc \in WithContainer}
        \cup {MockXml}

\* a call parseForm4(xmlContent): it returns the drafts or throws
CallParseForm4(doc) ==
    /\ doc \in ParseInputs
    /\ parser' = [called |-> TRUE, doc |-> doc, out |-> ParseForm4(doc)]
    /\ UNCHANGED <<filings, pipeVars, jobs, rateVars, repeat, lifecycle, agent, health>>

\* parseForm4 keeps no state: one call is looked at
NextParse == ~parser.called /\ \E doc \in ParseInputs : CallParseForm4(doc)

SpecParse == Init /\ [][NextParse]_vars

----------------------------------------------------------------------------
(* The workers under load *)

\* one kind of job for each queue: its handler returns (politician-filing,
\* alerts, enrichment) or throws (sec-filing: a parse job without filingId)
LoadInputs ==
    { Job("sec-filing", "parse", FALSE, << >>, NONE),
      Job("politician-filing", "fetch-pdf", TRUE, << >>, NONE),
      Job("alerts", "check-rules", TRUE, << >>, NONE),
      Job("enrichment", "update-prices", TRUE, << >>, NONE) }

\* queue.add of a job of the load
AddLoad(j) ==
    /\ j \in LoadInputs
    /\ jobs' = jobs (+) One(j)
    /\ UNCHANGED <<filings, pipeVars, rateVars, procVars>>

\* the jobs a queue holds
Load(js, q) == CountJobs(js, {k \in BagToSet(js) : k.queue = q})

\* The queues never hold more than MaxLoadJobs jobs; one queue is loaded
\* with up to one job beyond what its worker runs at a time, and the others
\* hold up to MaxBackground jobs each.
NextLoad ==
    \/ \E j \in LoadInputs :
         /\ AddLoad(j)
         /\ BagCardinality(jobs') <= MaxLoadJobs
         /\ Load(jobs', j.queue) <= Concurrency(j.queue) + 1
         /\ Cardinality({q \in Queues : Load(jobs', q) > MaxBackground}) <= 1
    \/ \E j \in BagToSet(jobs) :
        \/ PickJob(j)
        \/ RunSimpleJob(j)

SpecLoad == Init /\ [][NextLoad]_vars

----------------------------------------------------------------------------
(* Graceful shutdown *)

\* process.on("SIGTERM" / "SIGINT", closeQueues): closeQueues calls close()
\* on the four workers and the four queues at once. The workers stop taking
\* jobs. The queues were given the shared ioredis client, which BullMQ does
\* not quit on close(), so a handler that is still running can go on adding
\* jobs.
CloseQueues ==
    /\ lifecycle.phase = "running"
    /\ lifecycle' = [phase |-> "closing",
                     atSignal |-> [j \in JobsIn("active") |-> CopiesIn(j, jobs)]]
    /\ UNCHANGED <<filings, pipeVars, jobs, rateVars, repeat, parser, agent, health>>

\* A close that does not wait for the jobs that are running
CloseResolved_NoDrain ==
    /\ lifecycle.phase = "closing"
    /\ lifecycle' = [lifecycle EXCEPT !.phase = "closed"]
    /\ UNCHANGED <<filings, pipeVars, jobs, rateVars, repeat, parser, agent, health>>

\* closeQueues resolves: worker.close() resolves once the jobs the worker
\* is running have ended their attempt, and Promise.all once every close has
CloseResolved ==
    /\ lifecycle.phase = "closing"
    /\ \A q \in Queues : CountOf(jobs, q, "active") = 0
    /\ lifecycle' = [lifecycle EXCEPT !.phase = "closed"]
    /\ UNCHANGED <<filings, pipeVars, jobs, rateVars, repeat, parser, agent, health>>

\* jobs of the sec-filing queue that a caller of queue.add may add
SecInputs == {j \in JobInputs : j.queue = "sec-filing"}

\* the queues never hold more than MaxJobs jobs
NextShutdown ==
    \/ \E j \in SecInputs : AddJob(j) /\ BagCardinality(jobs') <= MaxJobs
    \/ \E j \in BagToSet(jobs) :
        \/ PickJob(j)
        \/ RunSimpleJob(j)
        \/ DiscoverSecFilings(j) /\ BagCardinality(jobs') <= MaxJobs
        \/ FetchCreate(j)
        \/ FetchEnqueueParse(j) /\ BagCardinality(jobs') <= MaxJobs
        \/ ParseSecFiling(j)
    \/ CloseQueues
    \/ CloseResolved

SpecShutdown == Init /\ [][NextShutdown]_vars

----------------------------------------------------------------------------
(* Recurring jobs *)

\* addRecurringJobs: the four queue.add calls with a repeat option, in order
RecurringJobs == <<
    [queue |-> "sec-filing", name |-> "discover",
     pattern |-> "*/15 * * * *", jobId |-> "discover-sec-filings"],
    [queue |-> "politician-filing", name |-> "discover-house",
     pattern |-> "0 * * * *", jobId |-> "discover-house-filings"],
    [queue |-> "politician-filing", name |-> "discover-senate",
     pattern |-> "30 * * * *", jobId |-> "discover-senate-filings"],
    [queue |-> "alerts", name |-> "check-rules",
     pattern |-> "*/5 * * * *", jobId |-> "check-alert-rules"] >>

\* A key that also holds something that differs from call to call
RepeatKey_PerCall(name, jobId, pattern) ==
    <<name, ":", jobId, ":", "", ":", "", ":", pattern, ToString(repeat.calls)>>

\* BullMQ's key of a repeatable job, `${name}:${jobId}:${endDate}:${tz}:${pattern}`
\* (no endDate and no tz are given)
RepeatKey(name, jobId, pattern) ==
    <<name, ":", jobId, ":", "", ":", "", ":", pattern>>

\* queue.add(name, data, { repeat, jobId }): the definition is stored under
\* its key, replacing the one that has the key already
AddRepeatable(defs, rj) ==
    LET key == RepeatKey(rj.name, rj.jobId, rj.pattern)
    IN {d \in defs : ~(d.queue = rj.queue /\ d.key = key)}
       \cup {[queue |-> rj.queue, key |-> key, name |-> rj.name, jobId |-> rj.jobId]}

\* addRecurringJobs, one await at a time; the call is made once per process start
AddRecurringJobs ==
    /\ repeat.at > 0 \/ repeat.calls < MaxRestarts
    /\ LET n == repeat.at + 1
       IN repeat' = [defs |-> AddRepeatable(repeat.defs, RecurringJobs[n]),
                     at |-> IF n = Len(RecurringJobs) THEN 0 ELSE n,
                     calls |-> IF n = Len(RecurringJobs) THEN repeat.calls + 1
                               ELSE repeat.calls]
    /\ UNCHANGED <<filings, pipeVars, jobs, rateVars, lifecycle, parser, agent, health>>

\* The time of a repeatable definition has come: BullMQ queues a job of it
FireRepeat(d) ==
    /\ d \in repeat.defs
    /\ jobs' = jobs (+) One(Job(d.queue, d.name, TRUE, << >>, NONE))
    /\ UNCHANGED <<filings, pipeVars, rateVars, procVars>>

\* the queues never hold more than MaxChainJobs jobs
NextRecurring ==
    \/ AddRecurringJobs
    \/ \E d \in repeat.defs : FireRepeat(d) /\ BagCardinality(jobs') <= MaxChainJobs
    \/ \E j \in BagToSet(jobs) :
        \/ PickJob(j)
        \/ RunSimpleJob(j)
        \/ DiscoverSecFilings(j) /\ BagCardinality(jobs') <= MaxChainJobs
        \/ FetchCreate(j)
        \/ FetchEnqueueParse(j) /\ BagCardinality(jobs') <= MaxChainJobs
        \/ ParseSecFiling(j)

SpecRecurring == Init /\ [][NextRecurring]_vars

----------------------------------------------------------------------------
(* BaseAgent *)

\* executions that an agent ever starts
MaxExecutions == 5

\* start() up to its await: a running agent only warns; otherwise isRunning
\* is set and safeExecute() is called, which counts the execution. The
\* config is that of the constructor: it is chosen with the first start.
AgentStart ==
    /\ ~agent.isRunning
    /\ \E interval \in IF agent.executionCount = 0
                        THEN BOOLEAN ELSE {agent.interval} :
         agent' = [agent EXCEPT !.isRunning = TRUE, !.interval = interval,
                                !.executionCount = @ + 1, !.awaiting = @ + 1,
                                !.stopped = FALSE]
    /\ UNCHANGED <<filings, pipeVars, jobs, rateVars, repeat, lifecycle, parser, health>>

\* start() after its await: the initial execution has ended, and the
\* interval timer is set when config.interval is
AgentStarted ==
    /\ agent.awaiting > 0
    /\ agent' = IF agent.interval
                THEN [agent EXCEPT !.awaiting = @ - 1, !.made = @ + 1,
                                   !.intervalId = agent.made + 1,
                                   !.timers = @ \cup {agent.made + 1}]
                ELSE [agent EXCEPT !.awaiting = @ - 1]
    /\ UNCHANGED <<filings, pipeVars, jobs, rateVars, repeat, lifecycle, parser, health>>

\* An interval timer fires: its callback calls safeExecute()
TimerFires(id) ==
    /\ id \in agent.timers
    /\ agent' = [agent EXCEPT !.executionCount = @ + 1]
    /\ UNCHANGED <<filings, pipeVars, jobs, rateVars, repeat, lifecycle, parser, health>>

\* stop(): an agent that is not running only warns; otherwise isRunning is
\* cleared and the timer of intervalId, when there is one, is cleared
AgentStop ==
    /\ agent' = IF ~agent.isRunning THEN [agent EXCEPT !.stopped = TRUE]
                ELSE [agent EXCEPT !.isRunning = FALSE, !.intervalId = NONE,
                                   !.timers = @ \ {agent.intervalId},
                                   !.stopped = TRUE]
    /\ agent' # agent
    /\ UNCHANGED <<filings, pipeVars, jobs, rateVars, repeat, lifecycle, parser, health>>

\* the agent never starts more than MaxExecutions executions
NextAgent ==
    \/ AgentStart /\ agent'.executionCount <= MaxExecutions
    \/ AgentStarted
    \/ \E id \in agent.timers : TimerFires(id) /\ agent'.executionCount <= MaxExecutions
    \/ AgentStop

SpecAgent == Init /\ [][NextAgent]_vars

----------------------------------------------------------------------------
(* Claims *)

Range(s) == {s[n] : n \in DOMAIN s}

AllDone == \A r \in Runs : pc[r] = "done"

\* the rows of a table that record the same filing as f
SameFiling(fs, f) == {g \in fs : g.accessionNo = f.accessionNo /\ g.url = f.url}

TransactionsOf(ts, id) == {t \in ts : t.filingId = id}

C2_SecondRunIdempotent ==
    \A r \in Runs :
        base[r].quiet =>
            \A f \in base[r].filings :
                /\ SameFiling(filings, f) = SameFiling(base[r].filings, f)
                /\ TransactionsOf(transactions, f.id) = TransactionsOf(base[r].transactions, f.id)

\* C2 witness: a run that started after the first had finished has met a
\* filing the first run recorded with transactions, and has returned.
C2_Witness ==
    \E r \in Runs :
        /\ base[r].quiet /\ pc[r] = "done"
        /\ \E f \in base[r].filings :
             /\ f.accessionNo \in Range(run[r].attempted)
             /\ TransactionsOf(base[r].transactions, f.id) # {}

\* C3: once two runs that both went past the checksum guard for the same
\* filing have returned, the filing (when it was completed) has exactly one
\* Filing row and each draft parsed from it (those with a date the store
\* accepts) has exactly one Transaction.
C3_OverlapExactlyOnce ==
    AllDone =>
        \A f \in filings :
            (/\ f.status = "COMPLETED"
             /\ \A r \in Runs : f.accessionNo \in Range(downloads[r]))
            => /\ SameFiling(filings, f) = {f}
               /\ LET drafts == ParseForm4(f.rawXml).drafts
                  IN \A n \in DOMAIN drafts :
                       ValidDate(drafts[n].transactionDate) =>
                       Cardinality({t \in TransactionsOf(transactions, f.id) :
                                      /\ t.quantity = drafts[n].shares
                                      /\ t.transactionDate = NewDate(drafts[n].transactionDate)}) = 1

\* C4: the starts of any two consecutive network calls of one client are at
\* least RATE_LIMIT_DELAY apart, whatever the number of concurrent callers.
C4_MinInterval ==
    \A n \in DOMAIN starts :
        n > 1 => starts[n] - starts[n - 1] >= RATE_LIMIT_DELAY

\* C5: no two Person rows share a name and type, and no two Company rows
\* share a cik, however the find and create steps of two saveTransactions interleave.
C5_OneRowPerNaturalKey ==
    /\ \A p, q \in persons : (p.name = q.name /\ p.type = q.type) => p = q
    /\ \A c, d \in companies : c.cik = d.cik => c = d

\* C6: a run that has returned has attempted every discovered filing, in
\* order, and each attempt is counted as processed or as an error.
C6_BatchIsolation ==
    \A r \in Runs :
        pc[r] = "done" =>
            /\ run[r].attempted = [n \in DOMAIN run[r].disc |-> run[r].disc[n].acc]
            /\ run[r].processed + run[r].errors = Len(run[r].disc)

\* C6 witness: a run has returned after a filing that threw was followed by
\* one that it recorded.
C6_Witness ==
    \E r \in Runs :
        /\ pc[r] = "done" /\ run[r].errors > 0
        /\ \E m, n \in DOMAIN run[r].disc :
             /\ m < n
             /\ ~\E f \in filings : f.accessionNo = run[r].disc[m].acc
             /\ \E f \in filings : f.accessionNo = run[r].disc[n].acc /\ f.status = "COMPLETED"

\* C7: when findUnique finds a row with the checksum of the discovered
\* filing, processFiling returns at that step: no document is requested,
\* the client is not called, and no table changes.
C7_GuardBeforeFetch ==
    [][\A r \in Runs :
         (/\ pc[r] = "findUnique"
          /\ run'[r] # run[r]
          /\ ChecksumTaken(filings, Checksum(Discovery(r).cik, Discovery(r).acc)))
         => /\ run'[r].i = run[r].i + 1
            /\ run'[r].processed = run[r].processed + 1
            /\ pc'[r] \in {"findUnique", "done"}
            /\ UNCHANGED <<downloads, starts, lastRequestTime, caller>>
            /\ UNCHANGED <<filings, transactions, persons, companies>>]_vars

\* C7 witness: a run has returned from a filing it attempted without
\* requesting its document, the filing being recorded.
C7_Witness ==
    \E r \in Runs : \E n \in DOMAIN run[r].attempted :
        /\ n < run[r].i
        /\ run[r].attempted[n] \notin Range(downloads[r])
        /\ \E f \in filings : f.accessionNo = run[r].attempted[n]

\* C8: every draft parsed from a COMPLETED filing is a Transaction row of
\* that filing.
C8_CompletedHasAllDrafts ==
    \A f \in filings :
        f.status = "COMPLETED" =>
            LET drafts == ParseForm4(f.rawXml).drafts
            IN \A n \in DOMAIN drafts :
                 \E t \in TransactionsOf(transactions, f.id) :
                     /\ t.quantity = drafts[n].shares
                     /\ t.transactionDate = NewDate(drafts[n].transactionDate)

\* C9: a Filing row that is COMPLETED or FAILED stays in the table as it is.
C9_TerminalStatus ==
    [][\A f \in filings : f.status \in {"COMPLETED", "FAILED"} => f \in filings']_vars

\* C9 witness: a run that started after a filing was marked FAILED has met
\* it and has returned, a parse job has completed the filing of its fetch
\* job, and both rows are in the table as they were.
C9_Witness ==
    \E r \in Runs :
        /\ pc[r] = "done"
        /\ \E f \in base[r].filings :
             /\ f.status = "FAILED"
             /\ f.accessionNo \in Range(run[r].attempted)
             /\ f \in filings
        /\ \E j \in JobsIn("completed") : j.type = "parse"
        /\ \E g \in filings :
             g.status = "COMPLETED" /\ g.checksum = MockChecksum(MockFilings[1])

\* the attempts the claim states for each queue
ClaimedAttempts(q) ==
    CASE q = "sec-filing" -> 3
      [] q = "politician-filing" -> 3
      [] q = "alerts" -> 5
      [] q = "enrichment" -> 2

\* the times the handler of a job has been called
Attempted(j) == j.attemptsMade + (IF j.state = "active" THEN 1 ELSE 0)

\* C10: no job is attempted more often than the attempts of its queue
\* (3, 3, 5, 2); a failed job has been attempted exactly that often, a job
\* whose handler throws each time is never completed, and a failed job is
\* never taken up again.
C10_RetryExhaustion ==
    /\ [](\A j \in BagToSet(jobs) :
            /\ Attempted(j) <= ClaimedAttempts(j.queue)
            /\ j.state = "failed" => j.attemptsMade = ClaimedAttempts(j.queue)
            /\ j.state = "delayed" => j.attemptsMade < ClaimedAttempts(j.queue)
            /\ ~j.valid => j.state # "completed")
    /\ [][\A j \in JobsIn("failed") : CopiesIn(j, jobs') >= CopiesIn(j, jobs)]_vars

\* C10 witness: a job whose handler throws each time has failed for good in
\* each of the four queues' settings that the bound on the jobs lets meet.
C10_Witness ==
    /\ \E j \in JobsIn("failed") : j.queue = "alerts" /\ j.attemptsMade = 5
    /\ \E j \in JobsIn("failed") : j.queue = "enrichment" /\ j.attemptsMade = 2
    /\ \E j \in JobsIn("failed") : j.queue = "sec-filing" /\ j.attemptsMade = 3
    /\ \E j \in JobsIn("failed") : j.queue = "politician-filing" /\ j.attemptsMade = 3

\* the parse jobs that carry a filing id
ParseJobsFor(js, id) ==
    CountJobs(js, {j \in BagToSet(js) : j.type = "parse" /\ j.filingId = id})

\* C11: a fetch job that has completed created a Filing and there is exactly
\* one parse job carrying that Filing's id; the step that completes a fetch
\* job adds that one job, and a step in which a parse job ends its attempt
\* adds no job.
C11_FetchEnqueuesOneParse ==
    /\ [](\A j \in JobsIn("completed") :
            j.type = "fetch" =>
                /\ \E f \in filings : f.id = j.created /\ f.accessionNo = j.acc
                /\ ParseJobsFor(jobs, j.created) = 1)
    /\ [][\A j \in JobsIn("active") :
            CopiesIn(j, jobs') < CopiesIn(j, jobs) =>
                /\ (j.type = "parse" => BagCardinality(jobs') = BagCardinality(jobs))
                /\ (j.type = "fetch" /\ CountOf(jobs', j.queue, "completed")
                                          > CountOf(jobs, j.queue, "completed")
                       => /\ BagCardinality(jobs') = BagCardinality(jobs) + 1
                          /\ ParseJobsFor(jobs', j.created) = ParseJobsFor(jobs, j.created) + 1)]_vars

\* C11 witness: a fetch job has completed, the parse job it queued has
\* completed too, and another fetch job of the same filing has thrown.
C11_Witness ==
    /\ \E j \in JobsIn("completed") :
         /\ j.type = "fetch"
         /\ \E k \in JobsIn("completed") : k.type = "parse" /\ k.filingId = j.created
    /\ \E j \in BagToSet(jobs) : j.type = "fetch" /\ j.attemptsMade > 0 /\ j.state # "completed"

\* the fetch jobs of a filing
FetchJobsFor(js, acc) ==
    CountJobs(js, {j \in BagToSet(js) : j.type = "fetch" /\ j.acc = acc})

\* C12: the discover jobs queue one fetch job per newly observed filing and
\* none for a filing that an earlier discover job observed: no filing ever
\* has more than one fetch job.
C12_DiscoverDedupes ==
    \A n \in DOMAIN MockFilings : FetchJobsFor(jobs, MockFilings[n]) <= 1

\* the repeatable definitions that carry a dedup key (jobId)
DefinitionsOf(jobId) == {d \in repeat.defs : d.jobId = jobId}

DedupKeys == {RecurringJobs[n].jobId : n \in DOMAIN RecurringJobs}

\* C15: however often addRecurringJobs is called, no dedup key ever has more
\* than one recurring definition, and once a call has returned each of the
\* four keys has exactly one.
C15_OneDefinitionPerKey ==
    /\ \A k \in DedupKeys : Cardinality(DefinitionsOf(k)) <= 1
    /\ (repeat.calls > 0 => \A k \in DedupKeys : Cardinality(DefinitionsOf(k)) = 1)
    /\ \A d \in repeat.defs : d.jobId \in DedupKeys

\* C15 witness: addRecurringJobs has returned from its second call, and the
\* recurring discover definition has fired more than once.
C15_Witness ==
    /\ repeat.calls >= 2 /\ repeat.at = 0
    /\ Cardinality(repeat.defs) = Len(RecurringJobs)
    /\ CountJobs(jobs, {j \in BagToSet(jobs) : j.type = "discover"}) >= 2

\* the active jobs of a queue that are at their last attempt
LastAttempts(js, q) ==
    CountJobs(js, {j \in BagToSet(js) : /\ j.queue = q /\ j.state = "active"
                             /\ j.attemptsMade + 1 >= Attempts(q)})

\* the counts that a call of getQueueHealth would be given for a queue if
\* all its awaits were answered now
CountsNow(js, q) ==
    [waiting |-> CountOf(js, q, "waiting"), active |-> CountOf(js, q, "active"),
     completed |-> CountOf(js, q, "completed"), failed |-> CountOf(js, q, "failed")]

\* C13: the failed count that getQueueHealth is given for a queue, whenever
\* it asks, never goes down, and it goes up by one with each job whose last
\* attempt throws: every job that has failed for good stays counted.
C13_FailedJobsCounted ==
    [][\A q \in Queues :
         LET before == CountsNow(jobs, q)
             after == CountsNow(jobs', q)
         IN /\ after.failed >= before.failed
            /\ (/\ LastAttempts(jobs', q) < LastAttempts(jobs, q)
                /\ after.completed = before.completed)
               => after.failed = before.failed + 1]_vars

\* the fetch jobs that were running at the signal and had not created
\* their Filing yet
FetchingAtSignal ==
    {j \in BagToSet(lifecycle.atSignal) : j.type = "fetch" /\ j.valid /\ j.created = NONE}

\* C14: once closeQueues has been called no worker takes a job; when it has
\* resolved no job is running, the Filing of every fetch job that was
\* running at the signal is recorded, and every Filing that a fetch job
\* created has its parse job.
C14_GracefulDrain ==
    /\ [][lifecycle.phase # "running" =>
            \A q \in Queues :
                CountOf(jobs', q, "active") <= CountOf(jobs, q, "active")]_vars
    /\ [](lifecycle.phase = "closed" =>
            /\ \A q \in Queues : CountOf(jobs, q, "active") = 0
            /\ \A j \in FetchingAtSignal :
                 \E f \in filings : f.checksum = MockChecksum(j.acc)
            /\ \A f \in filings : ParseJobsFor(jobs, f.id) = 1)

\* C14 witness: closeQueues has resolved after the only fetch job of a
\* filing, which was running at the signal and had no Filing yet, completed:
\* its Filing is recorded and its parse job waits.
C14_Witness ==
    /\ lifecycle.phase = "closed"
    /\ \E a \in FetchingAtSignal : \E j \in JobsIn("completed") :
         /\ j.type = "fetch" /\ j.acc = a.acc
         /\ FetchJobsFor(jobs, j.acc) = 1
         /\ \E f \in filings : f.id = j.created /\ f.status = "PENDING"
         /\ \E k \in JobsIn("waiting") : k.type = "parse" /\ k.filingId = j.created

\* the concurrency the claim states for each queue
ClaimedConcurrency(q) ==
    CASE q = "sec-filing" -> 5
      [] q = "politician-filing" -> 3
      [] q = "alerts" -> 10
      [] q = "enrichment" -> 8

\* C16: no queue ever has more active jobs than the concurrency of its
\* worker (5, 3, 10, 8), whatever the other queues hold.
C16_ConcurrencyCeiling ==
    \A q \in Queues : CountOf(jobs, q, "active") <= ClaimedConcurrency(q)

\* C16 witness: a queue runs as many jobs as its worker allows while a
\* further job of it waits and another queue runs a job; each of the four
\* queues is seen so, one at a time.
C16_AtCeiling(q) ==
    /\ CountOf(jobs, q, "active") = ClaimedConcurrency(q)
    /\ CountOf(jobs, q, "waiting") > 0
    /\ \E o \in Queues \ {q} : CountOf(jobs, o, "active") > 0

C16_Witness == C16_AtCeiling("alerts")

C16_WitnessSec == C16_AtCeiling("sec-filing")

C16_WitnessPolitician == C16_AtCeiling("politician-filing")

C16_WitnessEnrichment == C16_AtCeiling("enrichment")

\* C17: when company.create is rejected because another run created the
\* Company first, saveTransactions goes on with the existing row: the next
\* step is the creation of the Transaction of the same draft, with the
\* Company that holds the ticker.
C17_ConflictRequeried ==
    [][\A r \in Runs :
         (/\ pc[r] = "createCompany"
          /\ run'[r] # run[r]
          /\ TickerTaken(companies, Draft(r).companyTicker))
         => /\ pc'[r] = "createTransaction"
            /\ run'[r].loc.k = run[r].loc.k
            /\ \E c \in companies :
                 c.id = run'[r].loc.company /\ c.ticker = Draft(r).companyTicker]_vars

\* the line items of the document of a filing
LineItems(f) == TransactionArray(f.rawXml.table)

\* what a document gives for a tag: the number or the text
Given(v) == IF v.kind = "number" THEN v.n ELSE v.text

\* a line item has a price: the tag is there and holds a number
HasPrice(it) == it.price.kind = "number"

\* C18: every Transaction row agrees with the line item it was made from: a
\* line item with a price gives estimatedValue = quantity x that price, a
\* line item without one gives null, and no row holds anything else.
C18_EstimatedValue ==
    \A t \in transactions :
        \E f \in filings : \E n \in DOMAIN LineItems(f) :
            LET it == LineItems(f)[n]
            IN /\ f.id = t.filingId
               /\ Truthy(Given(it.date)) /\ NewDate(Given(it.date)) = t.transactionDate
               /\ it.shares = Num(t.quantity)
               /\ t.estimatedValue =
                     IF HasPrice(it) THEN it.shares.n * it.price.n ELSE NULL

\* a line item that is complete: a share count that is a number above 0, a
\* date and a code
WellFormedItem(it) ==
    /\ it.shares.kind = "number" /\ it.shares.n > 0
    /\ it.date.kind \in {"text", "number"} /\ Truthy(Given(it.date))
    /\ it.code.kind \in {"text", "number"} /\ Truthy(Given(it.code))

\* C19: for a document with an array of line items parseForm4 does not raise
\* and returns the complete line items, one draft each, in document order;
\* those with a share count of 0 or that is no number are left out.
C19_SkipsMalformedItems ==
    (parser.called /\ parser.doc.wellFormed /\ parser.doc.table.kind = "array") =>
        LET kept == SelectSeq(parser.doc.table.value, WellFormedItem)
        IN /\ parser.out.ok
           /\ Len(parser.out.drafts) = Len(kept)
           /\ \A n \in DOMAIN kept :
                /\ parser.out.drafts[n].transactionDate = Given(kept[n].date)
                /\ parser.out.drafts[n].transactionCode = Given(kept[n].code)
                /\ parser.out.drafts[n].shares = kept[n].shares.n

\* the document with its bare line item put in a one-element array
AsArray(doc) == [doc EXCEPT !.table = ArrayOf(<< doc.table.value >>)]

\* C20: what parseForm4 returned for a document with a bare line item is
\* what it returns for the document with that item in a one-element array.
C20_SingleEntryNormalised ==
    (parser.called /\ parser.doc.wellFormed /\ parser.doc.table.kind = "object") =>
        /\ AsArray(parser.doc) \in ParseInputs
        /\ parser.out = ParseForm4(AsArray(parser.doc))

\* C20 witness: a complete line item given as a bare object was parsed into
\* one draft.
C20_Witness ==
    /\ parser.called /\ parser.doc.wellFormed /\ parser.doc.table.kind = "object"
    /\ WellFormedItem(parser.doc.table.value)
    /\ Len(parser.out.drafts) = 1

\* C21: parseForm4 raises exactly when the document has no ownershipDocument
\* container: a document without it raises, and one with it returns,
\* whatever its line items are.
C21_RaisesIffNoContainer ==
    parser.called => (~parser.out.ok <=> ~parser.doc.container)

\* the step of run r is the return of null by getFilingDocument
DownloadFailed(r) == pc[r] = "download" /\ pc'[r] \notin {"download", "createFiling"}

\* C22: a step in which the download of a discovered filing fails leaves the
\* four tables as they are, counts the filing as an error, and issues no
\* request, the one request for the filing having been issued before; and a
\* run that comes to a filing that has no Filing row (as after a failed
\* download) calls getFilingDocument for it.
C22_FailedDownloadRetriedByNextRun ==
    /\ [][\A r \in Runs :
            DownloadFailed(r)
            => /\ UNCHANGED <<filings, transactions, persons, companies>>
               /\ run'[r].errors = run[r].errors + 1
               /\ run'[r].processed = run[r].processed
               /\ run'[r].i = run[r].i + 1
               /\ run'[r].lost = Append(run[r].lost, Discovery(r).acc)
               /\ UNCHANGED <<downloads, starts>>
               /\ Cardinality({n \in DOMAIN downloads[r] :
                                 downloads[r][n] = Discovery(r).acc}) = 1]_vars
    /\ [][\A r \in Runs :
            (/\ pc[r] = "findUnique"
             /\ run'[r] # run[r]
             /\ ~\E f \in filings : f.accessionNo = Discovery(r).acc)
            => /\ pc'[r] = "download"
               /\ run'[r].attempted = Append(run[r].attempted, Discovery(r).acc)
               /\ \/ caller'[r].at = "sleeping" /\ caller'[r].op = "getFilingDocument"
                  \/ /\ caller'[r].at = "fetching"
                     /\ downloads'[r] = Append(downloads[r], Discovery(r).acc)]_vars

\* C22 witness: a run has returned with an error for a filing whose
\* document it requested, no Filing row records that filing, and a run that
\* started after it has requested the document again and received it.
C22_Witness ==
    \E q, r \in Runs :
        /\ q # r /\ base[q].quiet /\ base[r].quiet
        /\ pc[q] = "done" /\ run[q].errors > 0
        /\ pc[r] = "createFiling"
        /\ Discovery(r).acc \in Range(run[q].lost)
        /\ Discovery(r).acc \in Range(downloads[q])
        /\ Discovery(r).acc \in Range(downloads[r])
        /\ ~\E f \in filings : f.accessionNo = Discovery(r).acc

\* C23: every network call starts at least RATE_LIMIT_DELAY after the end
\* of each request that settled before it, whichever operations issued them.
C23_IntervalFromEndOfPrevious ==
    \A n \in DOMAIN starts : \A m \in DOMAIN ends :
        n > ends[m].started => starts[n] - ends[m].at >= RATE_LIMIT_DELAY

\* C24: after a response with X-RateLimit-Remaining below 5, no network call
\* of any caller starts before THROTTLE_SLEEP has passed since that response.
C24_ThrottleHoldsNextCall ==
    \A n \in DOMAIN starts : \A m \in DOMAIN ends :
        (ends[m].low /\ n > ends[m].started)
        => starts[n] - ends[m].at >= THROTTLE_SLEEP

\* the run r was the only one, on the empty store, for the one entity
\* Archive[1].cik and a lookback window of two days, and every request of it
\* was answered
ExampleRun(r) ==
    /\ pc[r] = "done"
    /\ \A q \in Runs \ {r} : pc[q] = "idle"
    /\ run[r].ciks = << Archive[1].cik >> /\ run[r].daysBack = 2
    /\ run[r].failed = {} /\ run[r].lost = << >>

\* C25: the run for one entity with one new form-4 filing in the window,
\* whose two line items are 25,000 shares acquired at 190.50 and a
\* disposition without a price, returns discovered 1, processed 1, errors 0
\* and leaves one COMPLETED Filing with two Transactions, one with the
\* estimated value 4,762,500 and one with none.
C25_WorkedExample ==
    \A r \in Runs :
        ExampleRun(r) =>
            /\ Len(run[r].disc) = 1 /\ run[r].processed = 1 /\ run[r].errors = 0
            /\ \E f \in filings :
                 /\ filings = {f}
                 /\ f.status = "COMPLETED" /\ f.accessionNo = Archive[1].acc
                 /\ \E t, u \in transactions :
                      /\ transactions = {t, u} /\ t # u
                      /\ t.filingId = f.id /\ u.filingId = f.id
                      /\ t.tradeType = "BUY" /\ t.quantity = 25000
                      /\ t.price = Hundredths(190, 50)
                      /\ t.estimatedValue = Hundredths(4762500, 0)
                      /\ u.tradeType = "SELL" /\ u.price = NONE
                      /\ u.estimatedValue = NULL

\* C25 witness: that run has returned, and the store holds two Transactions.
C25_Witness ==
    \E r \in Runs : ExampleRun(r) /\ Cardinality(transactions) = 2

\* C26: every Filing that is PENDING is COMPLETED or FAILED at some later
\* time, in the ingest run and in the chain of fetch and parse jobs, also
\* when a job throws part-way and is retried until its attempts are used up.
\* Rows are never deleted and finitely many are created, so this is: from
\* some time on no Filing is PENDING.
C26_PendingResolves ==
    <>[](\A f \in filings : f.status # "PENDING")

\* the step of run r is the return of processFiling at the checksum guard
SkippedByGuard(r) == pc[r] = "findUnique" /\ pc'[r] # "download" /\ run'[r] # run[r]

\* the step of run r is a throw of processFiling: the document request
\* failed, filing.create was rejected, or parseForm4 threw
Threw(r) ==
    \/ pc[r] = "download" /\ pc'[r] \notin {"download", "createFiling"}
    \/ pc[r] = "createFiling" /\ run'[r] # run[r] /\ filings' = filings
    \/ pc[r] = "markFailed" /\ run'[r] # run[r]

\* C27: a run that has gone through n of its discoveries has counted n as
\* processed or as errors, so that on return discovered = processed + errors;
\* a filing skipped by the checksum guard adds one to processed, and a
\* filing whose processing threw adds one to errors.
C27_CountsAddUp ==
    /\ [](\A r \in Runs :
            /\ pc[r] \notin {"idle", "findMany", "discover"}
               => run[r].processed + run[r].errors = run[r].i - 1
            /\ pc[r] = "done" => Len(run[r].disc) = run[r].processed + run[r].errors)
    /\ [][\A r \in Runs :
            /\ SkippedByGuard(r) => /\ run'[r].processed = run[r].processed + 1
                                    /\ run'[r].errors = run[r].errors
            /\ Threw(r) => /\ run'[r].errors = run[r].errors + 1
                           /\ run'[r].processed = run[r].processed]_vars

\* C27 witness: a run has returned after it skipped at the guard a filing
\* that the other run had recorded, without requesting its document, and
\* after the processing of another filing threw.
C27_Witness ==
    \E r \in Runs :
        /\ pc[r] = "done" /\ run[r].errors > 0 /\ run[r].processed > 0
        /\ \E n \in DOMAIN run[r].attempted :
             /\ run[r].attempted[n] \notin Range(downloads[r])
             /\ \E f \in filings : f.accessionNo = run[r].attempted[n]
        /\ Len(run[r].lost) > 0

\* the entities of a run whose listing request was answered, in order
Remaining(r) == SelectSeq(run[r].ciks, LAMBDA cik : cik \notin run[r].failed)

\* the filings of the archive that a listing of the entity shows in the
\* window of a run: the day they were filed began no more than daysBack
\* days before the run took its cutoff
InWindow(cik, rr) ==
    {a \in Range(Archive) :
        /\ a.cik = cik /\ a.form = "4"
        /\ NotBefore(Instant(-a.age, 0), Instant(-rr.daysBack, rr.cutoff))}

\* C28: the discoveries of a run that has left discoverRecentFilings are
\* those of the entities whose listing request was answered, as if the
\* failed entities had not been asked for:
\* every filing of an answered entity is discovered, none of a failed one,
\* and the counts are those of the discovered filings alone (a failed
\* listing is no error).
C28_FailedListingSkipped ==
    \A r \in Runs :
        pc[r] \notin {"idle", "findMany", "discover"} =>
            /\ run[r].disc = discoverRecentFilings(Remaining(r), {"4"}, run[r].daysBack, {},
                                                   run[r].cutoff)
            /\ \A cik \in Range(run[r].ciks) :
                 IF cik \in run[r].failed
                 THEN \A d \in Range(run[r].disc) : d.cik # cik
                 ELSE InWindow(cik, run[r]) \subseteq Range(run[r].disc)
            /\ Len(run[r].disc) = Cardinality(UNION {InWindow(cik, run[r]) :
                                                     cik \in Range(Remaining(r))})
            /\ run[r].processed + run[r].errors <= Len(run[r].disc)

\* C28 witness: a run for two entities has returned after the listing
\* request of the first, which has filings in the window, failed: what it
\* discovered are the filings of the second, and its one error is that of
\* the filing it marked FAILED, none is counted for the listing.
C28_Witness ==
    \E r \in Runs :
        /\ pc[r] = "done"
        /\ Len(run[r].ciks) = 2
        /\ run[r].failed = {run[r].ciks[1]}
        /\ InWindow(run[r].ciks[1], run[r]) # {}
        /\ Len(run[r].disc) > 0
        /\ \A d \in Range(run[r].disc) : d.cik = run[r].ciks[2]
        /\ run[r].lost = << >>
        /\ run[r].errors = Cardinality({f \in filings : f.status = "FAILED"})
        /\ run[r].processed + run[r].errors = Len(run[r].disc)

\* the entity under whose listing the archive holds the filing
EntityOf(f) == (CHOOSE a \in Range(Archive) : a.acc = f.accessionNo).cik

\* C29: every Transaction references the Company whose cik is the entity
\* under which its filing was discovered, whatever Company rows exist
\* (rows with an empty ticker or an equal name included).
C29_CompanyOfEntity ==
    \A t \in transactions :
        \E f \in filings, c \in companies :
            /\ f.id = t.filingId
            /\ c.id = t.companyId
            /\ c.cik = EntityOf(f)

\* C30: once stop() has returned, and until start() is called again, the
\* agent has no active interval timer and starts no execution, also when
\* stop() was called while start() awaited the initial execution.
C30_StopIsFinal ==
    /\ [](agent.stopped => agent.timers = {})
    /\ [][(agent.stopped /\ agent'.stopped)
            => agent'.executionCount = agent.executionCount]_vars

====
